---- MODULE Spec2Model ----
(***************************************************************************)
(* Event ingestion, deduplication and session coordination of the          *)
(* multi-pipeline email watcher.                                           *)
(*                                                                         *)
(*   email_watcher/pipeline_watcher.py  sweep, dedup store, dispatch       *)
(*   pipeline_manager.py                run_si_pipeline/run_viajeros_...   *)
(*   shared/pipeline_coordinator.py     sessions, join check, watcher      *)
(*   shared/error_handler.py            report sink                        *)
(*                                                                         *)
(* The clock `now` counts seconds.  Both datetime.now() and SQLite's       *)
(* CURRENT_TIMESTAMP have one-second resolution and are read from `now`    *)
(* (the process is taken to run with a UTC local clock).                   *)
(***************************************************************************)
EXTENDS Integers, Sequences, FiniteSets, TLC

VARIABLES
    now,          \* wall clock, seconds
    unseen,       \* mailbox: UNSEEN messages in UID order
    arrived,      \* number of deliveries so far
    delivered,    \* the subject of every message ever sent, by Message-ID
    processed,    \* table processed of STATE_DB (rows of the dedup store)
    sessions,     \* table pipeline_sessions: session_id -> row
    pc,           \* position of the watcher's worker thread
    queue,        \* emails_to_process still to be dispatched in this sweep
    cur,          \* the item being processed and the session it runs in
    joinBranch,   \* branch chosen by _check_and_send_combined_report
    pauseUntil,   \* end of the time.sleep(2) between items of a group
    watchers,     \* live timeout_monitor threads
    reports,      \* calls made to the report sink, in order
    crashes,      \* process restarts so far
    sweepLog,     \* history: the items the last sweep handed to process_email
    sweepSkipped, \* history: the ids the last sweep skipped as already done
    active,       \* history: workflow subprocesses of this process still running
    entry,        \* which SI entry point runs the emission step
    emisiones,    \* emision_unica.json: the invoices and their insured lists
    step,         \* position of the emission step
    submitted,    \* history: every file handed to the external workflow
    emisiones_exitosas,      \* successes returned by the first submission
    emisiones_fallidas,      \* failures returned by the first submission
    filtered,                \* the *_filtered.json written before the retry
    removed_individuals,     \* insured taken out of the file by the filter
    successful_emissions,    \* result: the emissions reported as successful
    failed_individuals_data, \* result: per-invoice record of the rejection
    all_failed_individuals,  \* result: every individual the API named
    mainAt,       \* position of main()'s connection loop
    client,       \* the IMAP client of main(): none, alive or dead
    up,           \* environment: the mail server is reachable
    hasIdle,      \* environment: the server advertises IDLE
    POLL_INTERVAL,               \* configuration POLL_INTERVAL_SEC
    consecutive_failures,        \* main's count of failed rounds
    ssl_failure_count,           \* main's count of SSL-classified failures
    use_idle,                    \* idle_loop's mode flag
    consecutive_idle_failures,   \* idle_with_keepalive's counter
    consecutive_polling_failures,\* polling_loop_with_interval's counter
    backoff,      \* the delay main last computed, in 1/Ticks seconds
    ssl_error,    \* the class main gave to the last error it handled
    cause,        \* history: the error behind main's last failure since it
                  \* was connected
    idleCalled,   \* history: client.idle() was called on this connection
    downgraded,   \* history: idle_with_keepalive asked for polling
    swept,        \* history: the last step ran a sweep on a live connection
    stats_files,  \* the files of the stats directory: name -> content
    calls,        \* history: the calls made to the statistics manager
    data_files,   \* the SI workflow's data directory: name -> content
    runs,         \* history: the failed individuals of each run so far
    USE_SSL,      \* IMAP_SSL: the configured transport is SSL
    strategy,     \* reconnect_imap: the strategy tried next, 0 outside it
    attempts      \* history: the strategies tried and where each ended

vars == <<now, unseen, arrived, delivered, processed, sessions, pc, queue,
          cur, joinBranch, pauseUntil, watchers, reports, crashes, sweepLog,
          sweepSkipped, active, entry, emisiones, step, submitted,
          emisiones_exitosas, emisiones_fallidas, filtered,
          removed_individuals, successful_emissions,
          failed_individuals_data, all_failed_individuals, mainAt, client,
          up, hasIdle, POLL_INTERVAL, consecutive_failures,
          ssl_failure_count, use_idle, consecutive_idle_failures,
          consecutive_polling_failures, backoff, ssl_error, cause,
          idleCalled, downgraded, swept, stats_files, calls, data_files,
          runs, USE_SSL, strategy, attempts>>

\* The state of the watcher and of the coordinator.
watcherVars == <<now, unseen, arrived, delivered, processed, sessions, pc,
                 queue, cur, joinBranch, pauseUntil, watchers, reports,
                 crashes, sweepLog, sweepSkipped, active>>

\* The state of the emission step inside the SI workflow subprocess.
emissionVars == <<entry, emisiones, step, submitted, emisiones_exitosas,
                  emisiones_fallidas, filtered, removed_individuals,
                  successful_emissions, failed_individuals_data,
                  all_failed_individuals>>

\* The state of main()'s connection loop and of the mail server.
connVars == <<mainAt, client, up, hasIdle, POLL_INTERVAL,
              consecutive_failures, ssl_failure_count, use_idle,
              consecutive_idle_failures, consecutive_polling_failures,
              backoff, ssl_error, cause, idleCalled, downgraded, swept>>

\* The statistics files and the calls that wrote them.
statsVars == <<stats_files, calls>>

\* The SI workflow's data directory and the runs that wrote it.
runVars == <<data_files, runs>>

\* The configured transport and the strategies of reconnect_imap.
reconnectVars == <<USE_SSL, strategy, attempts>>

\* What the steps of one part of the program leave alone.
outsideWatcher == <<emissionVars, connVars, statsVars, runVars, reconnectVars>>
outsideEmission == <<watcherVars, connVars, statsVars, runVars, reconnectVars>>
outsideConn == <<watcherVars, emissionVars, statsVars, runVars, reconnectVars>>
outsideStats == <<watcherVars, emissionVars, connVars, runVars, reconnectVars>>
outsideReconnect == <<watcherVars, emissionVars, connVars, statsVars, runVars>>

------------------------------------------------------------------------------
(* Bounds of the model *)

MaxTime     == 601
TimeStep    == 300
MaxSub      == 1
MaxArrivals == 2
MaxUnseen   == 2
MaxCrashes  == 1

\* Bounds of the sweep specification
MaxSweepMsgs == 3
MaxDate      == 2

(* Program constants *)

WaitTimeout       == 300
CheckInterval     == 30
SessionWindowSecs == 600
InterItemPause    == 2

------------------------------------------------------------------------------
(* Vocabulary *)

Kinds  == {"si", "viajeros"}
None   == -1
NoMid  == 0      \* a message without Message-ID header
NoDate == 0      \* a subject without a parseable "| YYYY-MM-DD"

OtherKind(k) == IF k = "si" THEN "viajeros" ELSE "si"

NoItem == [mid |-> NoMid, kind |-> "none", sid |-> None, success |-> FALSE,
           pauseAfter |-> FALSE]

------------------------------------------------------------------------------
(* Dedup store: pipeline_watcher.py already_done / mark_done *)

\* already_done without the lookup: every message counts as new
already_done_never(con, mid) == FALSE

\* SELECT 1 FROM processed WHERE message_id=?  (an empty id is never done)
already_done(con, mid) ==
    IF mid = NoMid THEN FALSE
    ELSE \E r \in con : r.mid = mid

\* mark_done as INSERT OR REPLACE: a second call overwrites the row
mark_done_replace(con, mid, ts, subject) ==
    IF mid = NoMid THEN con
    ELSE {r \in con : r.mid # mid}
         \cup {[mid |-> mid, ts |-> ts, subject |-> subject]}

\* INSERT OR IGNORE INTO processed(message_id, ts, subject, from_addr)
mark_done(con, mid, ts, subject) ==
    IF mid = NoMid THEN con
    ELSE IF \E r \in con : r.mid = mid THEN con
    ELSE con \cup {[mid |-> mid, ts |-> ts, subject |-> subject]}

------------------------------------------------------------------------------
(* Trigger rules and allowed window: should_trigger / allowed_now *)

SecondsPerDay  == 24 * 60 * 60
SecondsPerHour == 60 * 60
DaysPerWeek    == 7

\* ALLOWED_DAYS = "mon,tue,wed,thu,fri" and ALLOWED_HOURS = "00-23"; second 0
\* of the clock is the start of a Monday.
AllowedDays      == {0, 1, 2, 3, 4}
AllowedHourStart == 0
AllowedHourEnd   == 23

Weekday(t) == (t \div SecondsPerDay) % DaysPerWeek
HourOf(t)  == (t % SecondsPerDay) \div SecondsPerHour

\* allowed_now: the day is one of ALLOWED_DAYS and s <= now.hour <= e
allowed_now(t) ==
    /\ Weekday(t) \in AllowedDays
    /\ AllowedHourStart <= HourOf(t)
    /\ HourOf(t) <= AllowedHourEnd

\* should_trigger: subject and sender match the configured patterns
should_trigger(m) == m.trigger

------------------------------------------------------------------------------
(* Ordering: extract_date_from_subject and the sort of process_new_unseen *)

\* A subject date d is midnight of day d, and midnight of day 1 is one second
\* before second 0 of the clock.  No date, or an unparseable one, gives
\* datetime.now().
extract_date_from_subject(m, t) ==
    IF m.date = NoDate THEN t
    ELSE (m.date - 1) * SecondsPerDay - 1

\* Insert e into the sorted sequence s after every element whose key is
\* not greater (list.sort is stable).
RECURSIVE InsertByDate(_, _)
InsertByDate(s, e) ==
    IF s = <<>> THEN <<e>>
    ELSE IF e.subject_date < Head(s).subject_date THEN <<e>> \o s
    ELSE <<Head(s)>> \o InsertByDate(Tail(s), e)

RECURSIVE SortByDate(_)
SortByDate(s) ==
    IF s = <<>> THEN <<>>
    ELSE InsertByDate(SortByDate(SubSeq(s, 1, Len(s) - 1)), s[Len(s)])

\* Pipeline kinds in order of first appearance (dict insertion order).
RECURSIVE GroupKeys(_)
GroupKeys(s) ==
    IF s = <<>> THEN <<>>
    ELSE LET rest == GroupKeys(SubSeq(s, 1, Len(s) - 1))
             k    == s[Len(s)].kind
         IN IF \E i \in DOMAIN rest : rest[i] = k THEN rest
            ELSE Append(rest, k)

\* One group with the flag "another item of this group follows" (the item
\* is followed by time.sleep(2)).
GroupOf(s, k) ==
    LET g == SelectSeq(s, LAMBDA e : e.kind = k)
    IN [i \in DOMAIN g |->
          [mid |-> g[i].mid, kind |-> g[i].kind,
           subject_date |-> g[i].subject_date,
           pauseAfter |-> i < Len(g)]]

RECURSIVE ConcatGroups(_, _)
ConcatGroups(s, keys) ==
    IF keys = <<>> THEN <<>>
    ELSE GroupOf(s, Head(keys)) \o ConcatGroups(s, Tail(keys))

\* The order in which _process_multiple_emails_coordinated (or, for one
\* item, _process_single_email_coordinated) handles the sorted items.
DispatchOrder(s) == ConcatGroups(s, GroupKeys(s))

\* The fetch loop of process_new_unseen: skip what is already done, what
\* does not match and, outside the allowed window, everything; attach the
\* ordering key.
RECURSIVE Collect(_, _, _)
Collect(msgs, con, t) ==
    IF msgs = <<>> THEN <<>>
    ELSE LET m == Head(msgs)
         IN IF already_done(con, m.mid) THEN Collect(Tail(msgs), con, t)
            ELSE IF ~should_trigger(m) THEN Collect(Tail(msgs), con, t)
            ELSE IF ~allowed_now(t) THEN Collect(Tail(msgs), con, t)
            ELSE <<[mid |-> m.mid, kind |-> m.kind,
                    subject_date |-> extract_date_from_subject(m, t),
                    dated |-> m.date # NoDate]>>
                 \o Collect(Tail(msgs), con, t)

------------------------------------------------------------------------------
(* Session coordinator: shared/pipeline_coordinator.py *)

Terminal(st) == st \in {"completed", "failed"}
Active(st)   == st \in {"running", "completed", "failed"}

\* INSERT INTO pipeline_sessions (session_id): the column defaults
NewSession(t) ==
    [status       |-> [k \in Kinds |-> "pending"],
     started_at   |-> [k \in Kinds |-> None],
     completed_at |-> [k \in Kinds |-> None],
     combined_report_sent |-> FALSE,
     created_at   |-> t]

\* session_{strftime('%Y%m%d_%H%M%S')}: the id is the second of creation
SessionIdAt(t) == t

\* WHERE created_at > datetime('now', '-10 minutes')
\*   AND combined_report_sent = FALSE
OpenSessions(tbl, t) ==
    {id \in DOMAIN tbl : /\ tbl[id].created_at > t - SessionWindowSecs
                         /\ ~tbl[id].combined_report_sent}

\* ORDER BY created_at DESC LIMIT 1
LatestOf(tbl, ids) ==
    CHOOSE id \in ids : \A o \in ids : tbl[o].created_at <= tbl[id].created_at

\* _get_or_create_session: the id it returns.  A primary-key clash on the
\* INSERT is caught and the same freshly formatted id is returned.
SessionFor(tbl, t) ==
    IF OpenSessions(tbl, t) # {} THEN LatestOf(tbl, OpenSessions(tbl, t))
    ELSE SessionIdAt(t)

\* _get_or_create_session: the table it leaves behind
TableAfterGet(tbl, t) ==
    IF OpenSessions(tbl, t) # {} THEN tbl
    ELSE IF SessionIdAt(t) \in DOMAIN tbl THEN tbl
    ELSE tbl @@ (SessionIdAt(t) :> NewSession(t))

\* The join check with 'failed' left out of the terminal statuses of the
\* both_complete test
JoinDecision_completed_only(si, vi) ==
    IF si = "completed" /\ vi = "completed" THEN "combined"
    ELSE IF Terminal(si) /\ ~Active(vi) THEN "single_si"
    ELSE IF Terminal(vi) /\ ~Active(si) THEN "single_viajeros"
    ELSE "monitor"

\* The join check with 'pending' counted among the active statuses
JoinDecision_pending_active(si, vi) ==
    IF Terminal(si) /\ Terminal(vi) THEN "combined"
    ELSE IF Terminal(si) /\ ~(Active(vi) \/ vi = "pending") THEN "single_si"
    ELSE IF Terminal(vi) /\ ~(Active(si) \/ si = "pending") THEN "single_viajeros"
    ELSE "monitor"

\* The branch taken by _check_and_send_combined_report on an unsent row
JoinDecision(si, vi) ==
    IF Terminal(si) /\ Terminal(vi) THEN "combined"
    ELSE IF Terminal(si) /\ ~Active(vi) THEN "single_si"
    ELSE IF Terminal(vi) /\ ~Active(si) THEN "single_viajeros"
    ELSE "monitor"

\* The watcher comparing the elapsed time with check_interval instead of
\* wait_timeout
MonitorDecision_short_wait(row, t) ==
    IF row.combined_report_sent THEN "stop"
    ELSE IF t - row.created_at >= CheckInterval THEN "timeout"
    ELSE IF Terminal(row.status["si"]) /\ Terminal(row.status["viajeros"])
         THEN "combined"
    ELSE IF Terminal(row.status["si"]) /\ ~Active(row.status["viajeros"])
         THEN "single_si"
    ELSE IF Terminal(row.status["viajeros"]) /\ ~Active(row.status["si"])
         THEN "single_viajeros"
    ELSE "sleep"

\* The branch taken by one poll of timeout_monitor
MonitorDecision(row, t) ==
    IF row.combined_report_sent THEN "stop"
    ELSE IF t - row.created_at >= WaitTimeout THEN "timeout"
    ELSE IF Terminal(row.status["si"]) /\ Terminal(row.status["viajeros"])
         THEN "combined"
    ELSE IF Terminal(row.status["si"]) /\ ~Active(row.status["viajeros"])
         THEN "single_si"
    ELSE IF Terminal(row.status["viajeros"]) /\ ~Active(row.status["si"])
         THEN "single_viajeros"
    ELSE "sleep"

\* The report variant chosen by _send_timeout_report
TimeoutVariant(row) ==
    LET si_active == row.started_at["si"] # None
                     /\ row.completed_at["si"] # None
        vi_active == row.started_at["viajeros"] # None
                     /\ row.completed_at["viajeros"] # None
    IN IF si_active /\ ~vi_active THEN "timeout_only_si"
       ELSE IF vi_active /\ ~si_active THEN "timeout_only_viajeros"
       ELSE IF si_active /\ vi_active THEN "timeout_coordination_failed"
       ELSE "timeout_none_active"

\* UPDATE pipeline_sessions SET combined_report_sent = TRUE WHERE session_id=?
MarkSent(tbl, sid) ==
    IF sid \in DOMAIN tbl
    THEN [tbl EXCEPT ![sid].combined_report_sent = TRUE]
    ELSE tbl

Report(sid, variant, kind) == [sid |-> sid, variant |-> variant, kind |-> kind]

------------------------------------------------------------------------------
(* Emission step of the SI workflow: submit, filter the rejected           *)
(* individuals, submit once more.                                          *)
(*                                                                         *)
(*   si_pipeline/corrected_main.py   process_si_emission_with_retry        *)
(*   si_pipeline/main.py             process_si_emission_with_retry        *)
(*   si_pipeline/enhanced_main.py    process_si_emission_with_individual_  *)
(*                                   filtering                             *)
(*                                                                         *)
(* pipeline_manager.run_si_pipeline starts corrected_main; the two other   *)
(* entry points are started by hand.  All three read the file written by   *)
(* create_single_emission just before.                                     *)

MaxMembers == 3     \* most rows of the comparison sheet
MaxPassport == 2    \* distinct non-empty passport values
MaxIdentity == 1    \* distinct non-empty identity values
MaxFound == 2       \* most individuals named by one rejection
MaxInvoices == 2      \* invoices of a file in the batch specification
MaxBatchMembers == 1  \* insured per invoice in the batch specification
MaxBatchFound == 1    \* individuals named by one rejection of a batch

Blank == 0          \* the empty string of a passport or identity field

ExpectationFailed == 417  \* status of a validation that names individuals
OtherStatus == 500        \* any other status of a failed invoice

StatusCodes == {ExpectationFailed, OtherStatus}

Entries == {"corrected_main", "main", "enhanced_main"}

SeqsUpTo(S, n) == UNION {[1..k -> S] : k \in 0..n}

\* An individual as the API names it in api_response['found']
Individuals == [passport : 0..MaxPassport, identity : 0..MaxIdentity]

\* The insured lists of create_single_emission: one entry per sheet row,
\* passport from CODIGO_INFOPLAN, identity always "".  `row` stands for the
\* rest of the entry (names, birth date, gender).
InsuredLists ==
    {[i \in 1..n |-> [row |-> i, passport |-> p[i], identity |-> Blank]] :
        n \in 1..MaxMembers, p \in [1..MaxMembers -> 0..MaxPassport]}

\* The file of create_single_emission: one policy number wrapping the list
SingleEmissions == {<<ins>> : ins \in InsuredLists}

extract_failed_individuals_from_api_response(api_response) ==
    IF api_response.found # <<>> THEN api_response.found ELSE <<>>

failed_passports(failed_individuals) ==
    {failed_individuals[i].passport : i \in DOMAIN failed_individuals}
        \ {Blank}

failed_identities(failed_individuals) ==
    {failed_individuals[i].identity : i \in DOMAIN failed_individuals}
        \ {Blank}

should_remove_blank(insured, failed_individuals) ==
    \/ insured.passport \in
           {failed_individuals[i].passport : i \in DOMAIN failed_individuals}
    \/ insured.identity \in
           {failed_individuals[i].identity : i \in DOMAIN failed_individuals}

should_remove(insured, failed_individuals) ==
    \/ /\ insured.passport # Blank
       /\ insured.passport \in failed_passports(failed_individuals)
    \/ /\ insured.identity # Blank
       /\ insured.identity \in failed_identities(failed_individuals)

filtered_insured(original_insured, failed_individuals) ==
    SelectSeq(original_insured,
              LAMBDA m : ~should_remove(m, failed_individuals))

removed_from(original_insured, failed_individuals) ==
    SelectSeq(original_insured,
              LAMBDA m : should_remove(m, failed_individuals))

\* The removed entries of the first n invoices, in file order
RECURSIVE RemovedUpTo(_, _, _)
RemovedUpTo(json, failed_individuals, n) ==
    IF n = 0
    THEN <<>>
    ELSE RemovedUpTo(json, failed_individuals, n - 1)
             \o removed_from(json[n], failed_individuals)

\* filter_individuals_from_json: every invoice of the file is filtered
\* against all the failed individuals
filter_individuals_from_json(json, failed_individuals) ==
    IF failed_individuals = <<>>
    THEN [json |-> json, removed |-> <<>>]
    ELSE [json |-> [g \in DOMAIN json |->
                       filtered_insured(json[g], failed_individuals)],
          removed |-> RemovedUpTo(json, failed_individuals, Len(json))]

\* filter_individuals_from_emission: one invoice against its own rejection
filter_individuals_from_emission(emision, failed_individuals) ==
    IF failed_individuals = <<>>
    THEN [emision |-> emision, removed |-> <<>>]
    ELSE [emision |-> filtered_insured(emision, failed_individuals),
          removed |-> removed_from(emision, failed_individuals)]

\* What the external workflow (quotation, manager validation, payment) can
\* answer for one invoice: an issued ticket, or a failure with its status
\* code and the individuals its api_response names.
OutcomesUpTo(n) ==
    {[ok |-> TRUE, status_code |-> 0, found |-> <<>>]}
        \cup [ok : {FALSE}, status_code : StatusCodes,
              found : SeqsUpTo(Individuals, n)]

Outcomes == OutcomesUpTo(MaxFound)

\* The answers to one submission of a file, one outcome per invoice.  For a
\* file of several invoices a rejection names at most MaxBatchFound
\* individuals.
Answers(json) ==
    [DOMAIN json ->
        IF Len(json) <= 1 THEN Outcomes ELSE OutcomesUpTo(MaxBatchFound)]

Facturas(json) == [g \in DOMAIN json |-> g]

\* emisiones_exitosas of one submission
Exitosas(json, o) ==
    LET ok == SelectSeq(Facturas(json), LAMBDA g : o[g].ok)
    IN  [i \in DOMAIN ok |-> [factura |-> ok[i], insured |-> json[ok[i]]]]

\* emisiones_fallidas of one submission
Fallidas(json, o) ==
    LET ko == SelectSeq(Facturas(json), LAMBDA g : ~o[g].ok)
    IN  [i \in DOMAIN ko |->
            [factura |-> ko[i], status_code |-> o[ko[i]].status_code,
             api_response |-> [found |-> o[ko[i]].found]]]

\* The failures whose individuals are read: corrected_main asks for status
\* 417, the two other entry points only for a non-empty 'found'.
NamedFailures(e, fallidas) ==
    SelectSeq(fallidas,
        LAMBDA f :
            /\ e = "corrected_main" => f.status_code = ExpectationFailed
            /\ extract_failed_individuals_from_api_response(f.api_response)
                   # <<>>)

RECURSIVE AllFound(_, _)
AllFound(named, n) ==
    IF n = 0
    THEN <<>>
    ELSE AllFound(named, n - 1) \o named[n].api_response.found

\* The individuals named for invoice g
FoundFor(named, g) ==
    LET own == SelectSeq(named, LAMBDA f : f.factura = g)
    IN  AllFound(own, Len(own))

\* The entries enhanced_main takes out of the first n invoices, each invoice
\* against the individuals named for it
RECURSIVE RemovedPerInvoice(_, _, _)
RemovedPerInvoice(json, named, n) ==
    IF n = 0
    THEN <<>>
    ELSE RemovedPerInvoice(json, named, n - 1)
             \o filter_individuals_from_emission(
                    json[n], FoundFor(named, n)).removed

\* The file that is submitted again and the entries taken out of it
FilterFor(e, json, named) ==
    IF e = "enhanced_main"
    THEN [json |-> [g \in DOMAIN json |->
             filter_individuals_from_emission(
                 json[g], FoundFor(named, g)).emision],
          removed |-> RemovedPerInvoice(json, named, Len(json))]
    ELSE filter_individuals_from_json(json, AllFound(named, Len(named)))

\* Whether the entry point submits a second time
WillRetry(e, fl) ==
    /\ fl.removed # <<>>
    /\ e = "enhanced_main" => \A g \in DOMAIN fl.json : fl.json[g] # <<>>

\* failed_individuals_data: one record per invoice whose rejection named
\* individuals
FailedData(e, named, removed) ==
    IF e = "enhanced_main" /\ removed = <<>>
    THEN <<>>
    ELSE [i \in DOMAIN named |->
             [factura |-> named[i].factura,
              api_failed_individuals |-> named[i].api_response.found,
              removed_individuals |->
                  IF e = "main" THEN <<>> ELSE removed]]

\* Before the SI workflow runs there is no emission step
NoEmissionStep ==
    /\ entry = "corrected_main"
    /\ emisiones = <<>>
    /\ step = "none"
    /\ submitted = <<>>
    /\ emisiones_exitosas = <<>>
    /\ emisiones_fallidas = <<>>
    /\ filtered = <<>>
    /\ removed_individuals = <<>>
    /\ successful_emissions = <<>>
    /\ failed_individuals_data = <<>>
    /\ all_failed_individuals = <<>>

------------------------------------------------------------------------------
(* Connection loop of the watcher: connect, monitor in IDLE or polling     *)
(* mode, back off after a failure.                                         *)
(*                                                                         *)
(*   email_watcher/pipeline_watcher.py  main, reconnect_imap, idle_loop,   *)
(*                                      idle_with_keepalive,               *)
(*                                      polling_loop_with_interval,        *)
(*                                      is_ssl_error, calculate_backoff    *)

MaxFailures == 8    \* most failed rounds in a row that are followed

Ticks == 32         \* delays are counted in 1/32 s: 3 * 1.5^n is exact
                    \* in these units for n <= 5, as it is in a float

max_idle_failures == 3
max_polling_failures == 3
base_backoff == 3

SslEarlyLimit == 3        \* SSL class: failures with the 60 s cap
SslEarlyCap == 60
RegularEarlyLimit == 5    \* regular class: failures with the 120 s cap
RegularEarlyCap == 120
BackoffCap == 300
PreferIdle == 0           \* POLL_INTERVAL_SEC = 0: prefer IDLE
SomeInterval == 60        \* a configured poll interval

\* The substrings is_ssl_error looks for, lower-cased
ssl_indicators ==
    {"eof occurred in violation of protocol", "ssl", "tls", "certificate",
     "handshake", "connection reset", "broken pipe"}

\* Exceptions with their text, the indicator substrings the lower-cased
\* text contains, and what kind of error they are.
FailedAllStrategies ==
    [text |-> "Failed to establish connection with all strategies",
     contains |-> {},
     kind |-> "generic"]

TransportErrors ==
    {[text |-> "EOF occurred in violation of protocol (_ssl.c:1129)",
      contains |-> {"eof occurred in violation of protocol", "ssl"},
      kind |-> "security"],
     [text |-> "[SSL: CERTIFICATE_VERIFY_FAILED] certificate verify failed",
      contains |-> {"ssl", "certificate"},
      kind |-> "security"],
     [text |-> "[Errno 104] Connection reset by peer",
      contains |-> {"connection reset"},
      kind |-> "security"],
     [text |-> "timed out",
      contains |-> {},
      kind |-> "generic"]}

NoError == [text |-> "", contains |-> {}, kind |-> "none"]

is_ssl_error(error_msg) == error_msg.contains \cap ssl_indicators # {}

RECURSIVE Pow(_, _)
Pow(b, n) == IF n = 0 THEN 1 ELSE b * Pow(b, n - 1)

Min(a, b) == IF a <= b THEN a ELSE b

\* calculate_backoff, in 1/Ticks seconds
calculate_backoff_flat(n, is_ssl_error_flag) ==
    Min(base_backoff * Pow(2, n) * Ticks, SslEarlyCap * Ticks)

calculate_backoff(n, is_ssl_error_flag) ==
    IF is_ssl_error_flag
    THEN IF n <= SslEarlyLimit
         THEN Min(base_backoff * Pow(2, n) * Ticks, SslEarlyCap * Ticks)
         ELSE Min(base_backoff * Pow(2, n) * Ticks, BackoffCap * Ticks)
    ELSE IF n <= RegularEarlyLimit
         THEN Min((base_backoff * Pow(3, n) * Ticks) \div Pow(2, n),
                  RegularEarlyCap * Ticks)
         ELSE Min(base_backoff * Pow(2, n) * Ticks, BackoffCap * Ticks)

\* The connection loop as Spec and SpecSweep take it: connected, the
\* monitoring loop delivering its sweeps.
Monitoring ==
    /\ mainAt = "idle_cycle"
    /\ client = "alive"
    /\ up = TRUE
    /\ hasIdle = TRUE
    /\ POLL_INTERVAL = PreferIdle
    /\ consecutive_failures = 0
    /\ ssl_failure_count = 0
    /\ use_idle = TRUE
    /\ consecutive_idle_failures = 0
    /\ consecutive_polling_failures = 0
    /\ backoff = 0
    /\ ssl_error = FALSE
    /\ cause = NoError
    /\ idleCalled = TRUE
    /\ downgraded = FALSE
    /\ swept = TRUE

------------------------------------------------------------------------------
(* The statistics files of shared/statistics_manager.py: one file for each *)
(* pipeline's latest run and one combined file, rewritten on every save    *)
(* and on every clear of one pipeline.                                     *)

MaxCalls == 5     \* calls of save_pipeline_stats and clear_stats in a run
MaxCount == 1     \* largest count of people in one statistics dict

PipelineTypes == {"viajeros", "si"}

viajeros_stats_file == "viajeros_latest_stats.json"
si_stats_file == "si_latest_stats.json"
combined_stats_file == "combined_latest_stats.json"

\* The if/elif of save_pipeline_stats, get_pipeline_stats and clear_stats
stats_file_of(pipeline_type) ==
    IF pipeline_type = "viajeros" THEN viajeros_stats_file ELSE si_stats_file

\* A key the statistics dict does not have
Absent == -1

\* What a reader gets for a file that does not exist
NoStats == [none |-> TRUE]

\* The dicts the pipelines save: the three counts, the total being the sum
\* of the other two, or a dict without them (the comparison statistics of
\* si_pipeline/main.py).  Their other keys are stored as they are and read
\* by no function of the manager.
NoCounts == [successful |-> Absent, failed |-> Absent,
             total_processed |-> Absent]

StatsDicts ==
    {NoCounts} \cup
    {[successful |-> s, failed |-> f, total_processed |-> s + f] :
        s \in 0..MaxCount, f \in 0..MaxCount}

\* dict.get(key, default)
get(value, default) == IF value = Absent THEN default ELSE value

\* open(file, 'w') and json.dump: the file exists afterwards with this
\* content, whatever it held before
write_file(files, file, content) ==
    [f \in DOMAIN files \cup {file} |->
        IF f = file THEN content ELSE files[f]]

\* if file.exists(): file.unlink()
unlink(files, file) == [f \in DOMAIN files \ {file} |-> files[f]]

\* stats_with_meta: the metadata and the saved dict's keys over them.  The
\* run_timestamp is the number of the call in place of datetime.now().
stats_with_meta(pipeline_type, stats, t) ==
    [pipeline_type |-> pipeline_type,
     run_timestamp |-> t,
     successful |-> stats.successful,
     failed |-> stats.failed,
     total_processed |-> stats.total_processed]

RECURSIVE total_of(_, _)
\* The loop over combined_stats['pipelines'].values() for one key
total_of(pipelines, key) ==
    IF DOMAIN pipelines = {} THEN 0
    ELSE LET p == CHOOSE q \in DOMAIN pipelines : TRUE
             pipeline_data == pipelines[p]
         IN get(pipeline_data[key], 0) +
            total_of([q \in DOMAIN pipelines \ {p} |-> pipelines[q]], key)

\* _update_combined_stats on the files as they are: the pipelines whose
\* file exists, their totals, and the rate in whole percent.
update_combined_stats(files, t) ==
    LET found == {p \in PipelineTypes : stats_file_of(p) \in DOMAIN files}
        pipelines == [p \in found |-> files[stats_file_of(p)]]
        total_successful == total_of(pipelines, "successful")
        total_failed == total_of(pipelines, "failed")
        total_processed == total_of(pipelines, "total_processed")
    IN write_file(files, combined_stats_file,
           [run_timestamp |-> t,
            pipelines |-> pipelines,
            totals |-> [successful |-> total_successful,
                        failed |-> total_failed,
                        total_processed |-> total_processed,
                        success_rate |->
                            IF total_processed > 0
                            THEN (total_successful * 100)
                                     \div total_processed
                            ELSE 0]])

\* get_pipeline_stats / get_pipeline_execution_stats
get_pipeline_stats(pipeline_type) ==
    IF stats_file_of(pipeline_type) \notin DOMAIN stats_files
    THEN NoStats
    ELSE stats_files[stats_file_of(pipeline_type)]

\* get_combined_stats / get_combined_execution_stats
get_combined_stats ==
    IF combined_stats_file \notin DOMAIN stats_files
    THEN NoStats
    ELSE stats_files[combined_stats_file]

\* The stats directory as __init__ creates it
NoStatistics ==
    /\ stats_files = [f \in {} |-> NoStats]
    /\ calls = <<>>

------------------------------------------------------------------------------
(* The data directory of the SI workflow, as run after run of              *)
(* pipeline_manager.run_si_pipeline leaves it, and the read the report     *)
(* makes of it.                                                            *)

MaxRuns == 2          \* runs of the SI workflow in a row
MaxRunMembers == 1    \* insured in the file of one of these runs

failed_individuals_file == "latest_failed_individuals.json"
failed_data_file == "failed_individuals_data.json"

\* ErrorHandler.get_si_failed_individuals_data: the 'all_failed_individuals'
\* of latest_failed_individuals.json, the empty list without that file
get_si_failed_individuals_data ==
    IF failed_individuals_file \in DOMAIN data_files
    THEN data_files[failed_individuals_file].all_failed_individuals
    ELSE <<>>

\* The data directory before the first run
NoDataFiles ==
    /\ data_files = [f \in {} |-> <<>>]
    /\ runs = <<>>

------------------------------------------------------------------------------
(* reconnect_imap: the connection strategies it tries one after the other. *)

MaxAttempts == 6      \* strategies tried in a run, over all reconnects

SslPort == 993
PlainPort == 143

\* PORT when IMAP_PORT is not set
PORT == IF USE_SSL THEN SslPort ELSE PlainPort

\* The list reconnect_imap builds on every call
connection_strategies ==
    <<[ssl |-> USE_SSL, port |-> PORT, timeout |-> 30],
      [ssl |-> USE_SSL, port |-> PORT, timeout |-> 60],
      [ssl |-> FALSE, port |-> PlainPort, timeout |-> 30]>>

\* Where the try block of one strategy can end: IMAPClient(...) raises,
\* login raises, select_folder raises, noop raises, or the client is
\* returned
StrategyOutcomes ==
    {"connect_failed", "login_failed", "select_failed", "noop_failed", "ok"}

\* The watcher as the other parts take it: IMAP_SSL at its default and
\* reconnect_imap not running
NoReconnect ==
    /\ USE_SSL = TRUE
    /\ strategy = 0
    /\ attempts = <<>>

------------------------------------------------------------------------------
(* Initial state: the process has just started, nothing is in the mailbox *)
(* and the worker is idle.  The stores are the files found on disk: empty, *)
(* or, after a worker that died inside its SI workflow, holding the        *)
(* session that worker left behind.                                        *)

NoSessions == [id \in {} |-> NewSession(0)]

StrandedSessions ==
    (SessionIdAt(0) :> [NewSession(0) EXCEPT !.status["si"] = "running",
                                             !.started_at["si"] = 0])

Init ==
    /\ now = 0
    /\ unseen = <<>>
    /\ arrived = 0
    /\ delivered = <<>>
    /\ processed = {}
    /\ sessions \in {NoSessions, StrandedSessions}
    /\ pc = "idle"
    /\ queue = <<>>
    /\ cur = NoItem
    /\ joinBranch = "none"
    /\ pauseUntil = 0
    /\ watchers = <<>>
    /\ reports = <<>>
    /\ crashes = 0
    /\ sweepLog = <<>>
    /\ sweepSkipped = {}
    /\ active = 0
    /\ NoEmissionStep
    /\ Monitoring
    /\ NoStatistics
    /\ NoDataFiles
    /\ NoReconnect

------------------------------------------------------------------------------
(* Environment *)

\* Time passes: by one second (at most MaxSub times in a row), up to the
\* next multiple of TimeStep, or to the end of the current time.sleep.  The
\* worker's database steps between two blocking points are taken to happen
\* within one second; time passes while it waits for mail, for the workflow
\* subprocess or in time.sleep.
NextStep(t) == ((t \div TimeStep) + 1) * TimeStep

TickTargets ==
    {NextStep(now)}
    \cup (IF (now + 1) % TimeStep <= MaxSub THEN {now + 1} ELSE {})
    \cup (IF pc = "pause" /\ pauseUntil > now THEN {pauseUntil} ELSE {})

Tick ==
    /\ pc \in {"idle", "exec", "pause"}
    /\ \E t \in TickTargets :
          /\ t <= MaxTime
          /\ now' = t
    /\ UNCHANGED outsideWatcher
    /\ UNCHANGED <<unseen, arrived, delivered, processed, sessions, pc, queue, cur,
                   joinBranch, pauseUntil, watchers, reports, crashes,
                   sweepLog, sweepSkipped, active>>

\* A trigger message is delivered to the mailbox (a re-delivery carries a
\* Message-ID seen before).  The mailbox is read by Sweep only, so a
\* delivery during the dispatch of a sweep is the same as one right after it.
Deliver(m) ==
    /\ pc = "idle"
    /\ arrived < MaxArrivals
    /\ Len(unseen) < MaxUnseen
    /\ unseen' = Append(unseen, m)
    /\ arrived' = arrived + 1
    /\ UNCHANGED outsideWatcher
    /\ UNCHANGED <<now, processed, sessions, pc, queue, cur, joinBranch,
                   pauseUntil, watchers, reports, crashes, sweepLog, sweepSkipped,
                   active>>

\* The process dies and is started again: threads and in-memory state are
\* gone, the two SQLite stores and the mailbox remain.  It dies where it
\* spends its time: in the workflow subprocess, in a sleep, or waiting for
\* mail while watcher threads are alive.
Crash ==
    /\ crashes < MaxCrashes
    /\ pc \in {"exec", "pause"} \/ (pc = "idle" /\ watchers # <<>>)
    /\ crashes' = crashes + 1
    /\ active' = 0
    /\ pc' = "idle"
    /\ queue' = <<>>
    /\ cur' = NoItem
    /\ joinBranch' = "none"
    /\ pauseUntil' = 0
    /\ watchers' = <<>>
    /\ UNCHANGED outsideWatcher
    /\ UNCHANGED <<now, unseen, arrived, delivered, processed, sessions, reports,
                   sweepLog, sweepSkipped>>

------------------------------------------------------------------------------
(* pipeline_watcher.py: one sweep and the sequential dispatch of its items *)

\* pc after the current item has been handled
AfterItem(item, q) ==
    IF item.pauseAfter THEN "pause"
    ELSE IF q = <<>> THEN "idle" ELSE "attach"

\* process_new_unseen up to the first dispatch: fetch every unseen message
\* (which marks it seen), drop the ones already done, sort, group.
Sweep ==
    /\ pc = "idle"
    /\ unseen # <<>>
    /\ LET items == DispatchOrder(SortByDate(Collect(unseen, processed, now)))
       IN /\ queue' = items
          /\ pc' = IF items = <<>> THEN "idle" ELSE "attach"
    /\ unseen' = <<>>
    /\ sweepLog' = <<>>
    /\ sweepSkipped' = {unseen[i].mid : i \in {j \in DOMAIN unseen :
                                        already_done(processed, unseen[j].mid)}}
    /\ UNCHANGED outsideWatcher
    /\ UNCHANGED <<now, arrived, delivered, processed, sessions, cur, joinBranch,
                   pauseUntil, watchers, reports, crashes, active>>

\* process_email_attachments fails (no attachment, no matching file, save
\* error): the failure is reported and the item is dropped, not marked done.
AttachFail ==
    /\ pc = "attach"
    /\ queue # <<>>
    /\ LET e == Head(queue)
       IN /\ reports' = Append(reports, Report(None, "preprocess_failure", e.kind))
          /\ pc' = AfterItem(e, Tail(queue))
          /\ pauseUntil' = IF e.pauseAfter THEN now + InterItemPause ELSE pauseUntil
    /\ queue' = Tail(queue)
    /\ UNCHANGED outsideWatcher
    /\ UNCHANGED <<now, unseen, arrived, delivered, processed, sessions, cur,
                   joinBranch, watchers, crashes, sweepLog, sweepSkipped,
                   active>>

\* process_email_attachments saves the file and calls process_email
AttachOk ==
    /\ pc = "attach"
    /\ queue # <<>>
    /\ Head(queue).kind \in Kinds
    /\ LET e == Head(queue)
       IN /\ cur' = [mid |-> e.mid, kind |-> e.kind, sid |-> None,
                     success |-> FALSE, pauseAfter |-> e.pauseAfter]
          /\ sweepLog' = Append(sweepLog, [mid |-> e.mid, kind |-> e.kind,
                                           sid |-> None, ran |-> FALSE,
                                           outcome |-> "started"])
    /\ queue' = Tail(queue)
    /\ pc' = "get_session"
    /\ UNCHANGED outsideWatcher
    /\ UNCHANGED <<now, unseen, arrived, delivered, processed, sessions, joinBranch,
                   pauseUntil, watchers, reports, crashes,
                   sweepSkipped, active>>

\* mark_done called only for an item whose workflow succeeded
MarkDone_on_success ==
    /\ pc = "mark"
    /\ processed' = IF cur.success
                    THEN mark_done(processed, cur.mid, now, cur.kind)
                    ELSE processed
    /\ pc' = AfterItem(cur, queue)
    /\ pauseUntil' = IF cur.pauseAfter THEN now + InterItemPause ELSE pauseUntil
    /\ cur' = NoItem
    /\ UNCHANGED outsideWatcher
    /\ UNCHANGED <<now, unseen, arrived, delivered, sessions, queue,
                   joinBranch, watchers, reports, crashes, sweepLog,
                   sweepSkipped, active>>

\* mark_done after process_email_attachments returned True
MarkDone ==
    /\ pc = "mark"
    /\ processed' = mark_done(processed, cur.mid, now, cur.kind)
    /\ pc' = AfterItem(cur, queue)
    /\ pauseUntil' = IF cur.pauseAfter THEN now + InterItemPause ELSE pauseUntil
    /\ cur' = NoItem
    /\ UNCHANGED outsideWatcher
    /\ UNCHANGED <<now, unseen, arrived, delivered, sessions, queue, joinBranch,
                   watchers, reports, crashes, sweepLog, sweepSkipped,
                   active>>

\* time.sleep(2) between two items of one group is over
PauseEnd ==
    /\ pc = "pause"
    /\ now >= pauseUntil
    /\ pc' = IF queue = <<>> THEN "idle" ELSE "attach"
    /\ UNCHANGED outsideWatcher
    /\ UNCHANGED <<now, unseen, arrived, delivered, processed, sessions, queue, cur,
                   joinBranch, pauseUntil, watchers, reports, crashes,
                   sweepLog, sweepSkipped, active>>

------------------------------------------------------------------------------
(* pipeline_manager.py: run_si_pipeline / run_viajeros_pipeline, with the  *)
(* coordinator calls they make                                             *)

\* start_pipeline_session, first transaction: _get_or_create_session
GetSession ==
    /\ pc = "get_session"
    /\ sessions' = TableAfterGet(sessions, now)
    /\ cur' = [cur EXCEPT !.sid = SessionFor(sessions, now)]
    /\ sweepLog' = [sweepLog EXCEPT ![Len(sweepLog)].sid = SessionFor(sessions, now)]
    /\ pc' = "start_update"
    /\ UNCHANGED outsideWatcher
    /\ UNCHANGED <<now, unseen, arrived, delivered, processed, queue, joinBranch,
                   pauseUntil, watchers, reports, crashes,
                   sweepSkipped, active>>

\* UPDATE pipeline_sessions SET <kind>_status = 'running',
\*        <kind>_started_at = CURRENT_TIMESTAMP WHERE session_id = ?
StartedRow(row, k, t) ==
    [row EXCEPT !.status[k] = "running", !.started_at[k] = t]

\* start_pipeline_session, second transaction
StartUpdate ==
    /\ pc = "start_update"
    /\ sessions' = IF cur.sid \in DOMAIN sessions
                   THEN [sessions EXCEPT ![cur.sid] = StartedRow(@, cur.kind, now)]
                   ELSE sessions
    /\ pc' = "validate"
    /\ UNCHANGED outsideWatcher
    /\ UNCHANGED <<now, unseen, arrived, delivered, processed, queue, cur, joinBranch,
                   pauseUntil, watchers, reports, crashes, sweepLog, sweepSkipped,
                   active>>

\* EarlyFail that returns without calling complete_pipeline
EarlyFail_no_complete ==
    /\ pc = "validate"
    /\ cur' = [cur EXCEPT !.success = FALSE]
    /\ pc' = "mark"
    /\ UNCHANGED outsideWatcher
    /\ UNCHANGED <<now, unseen, arrived, delivered, processed, sessions, queue,
                   joinBranch, pauseUntil, watchers, reports, crashes,
                   sweepLog, sweepSkipped, active>>

\* The run fails before the workflow is launched and without a report of its
\* own: baseline file missing, copy failed (si), or an exception.
EarlyFail ==
    /\ pc = "validate"
    /\ cur' = [cur EXCEPT !.success = FALSE]
    /\ pc' = "complete"
    /\ UNCHANGED outsideWatcher
    /\ UNCHANGED <<now, unseen, arrived, delivered, processed, sessions, queue,
                   joinBranch, pauseUntil, watchers, reports, crashes,
                   sweepLog, sweepSkipped, active>>

\* check_pipeline_excel_and_report rejects the file: handle_error sends a
\* report of its own, then complete_pipeline is called with success (the
\* "no data" cases) or failure.
ValidationReject ==
    /\ pc = "validate"
    /\ \E ok \in BOOLEAN : cur' = [cur EXCEPT !.success = ok]
    /\ reports' = Append(reports, Report(cur.sid, "validation", cur.kind))
    /\ pc' = "complete"
    /\ UNCHANGED outsideWatcher
    /\ UNCHANGED <<now, unseen, arrived, delivered, processed, sessions, queue,
                   joinBranch, pauseUntil, watchers, crashes, sweepLog,
                   sweepSkipped, active>>

\* The workflow started without waiting for it (Popen instead of run): the
\* worker goes on at once as if it had returned 0
Launch_detached ==
    /\ pc = "validate"
    /\ pc' = "complete"
    /\ active' = active + 1
    /\ cur' = [cur EXCEPT !.success = TRUE]
    /\ sweepLog' = [sweepLog EXCEPT ![Len(sweepLog)].ran = TRUE]
    /\ UNCHANGED outsideWatcher
    /\ UNCHANGED <<now, unseen, arrived, delivered, processed, sessions, queue,
                   joinBranch, pauseUntil, watchers, reports, crashes,
                   sweepSkipped>>

\* subprocess.run starts the workflow
Launch ==
    /\ pc = "validate"
    /\ pc' = "exec"
    /\ active' = active + 1
    /\ sweepLog' = [sweepLog EXCEPT ![Len(sweepLog)].ran = TRUE]
    /\ UNCHANGED outsideWatcher
    /\ UNCHANGED <<now, unseen, arrived, delivered, processed, sessions, queue,
                   cur, joinBranch, pauseUntil, watchers, reports, crashes,
                   sweepSkipped>>

\* subprocess.run returns: returncode 0 or not
ExecReturn ==
    /\ pc = "exec"
    /\ active' = active - 1
    /\ \E ok \in BOOLEAN : cur' = [cur EXCEPT !.success = ok]
    /\ pc' = "complete"
    /\ UNCHANGED outsideWatcher
    /\ UNCHANGED <<now, unseen, arrived, delivered, processed, sessions, queue,
                   joinBranch, pauseUntil, watchers, reports, crashes,
                   sweepLog, sweepSkipped>>

\* UPDATE pipeline_sessions SET <kind>_status = ?, <kind>_completed_at =
\*        CURRENT_TIMESTAMP WHERE session_id = ?
CompletedRow(row, k, ok, t) ==
    [row EXCEPT !.status[k] = IF ok THEN "completed" ELSE "failed",
                !.completed_at[k] = t]

\* complete_pipeline, first transaction
CompleteUpdate ==
    /\ pc = "complete"
    /\ sessions' = IF cur.sid \in DOMAIN sessions
                   THEN [sessions EXCEPT
                           ![cur.sid] = CompletedRow(@, cur.kind, cur.success, now)]
                   ELSE sessions
    /\ sweepLog' = [sweepLog EXCEPT ![Len(sweepLog)].outcome =
                                      IF cur.success THEN "completed" ELSE "failed"]
    /\ pc' = "check"
    /\ UNCHANGED outsideWatcher
    /\ UNCHANGED <<now, unseen, arrived, delivered, processed, queue, cur, joinBranch,
                   pauseUntil, watchers, reports, crashes,
                   sweepSkipped, active>>

\* _check_and_send_combined_report: the SELECT and the choice of a branch
CheckRead ==
    /\ pc = "check"
    /\ IF cur.sid \notin DOMAIN sessions
          \/ sessions[cur.sid].combined_report_sent
       THEN /\ pc' = "mark"
            /\ joinBranch' = "none"
       ELSE /\ pc' = "send"
            /\ joinBranch' = JoinDecision(sessions[cur.sid].status["si"],
                                          sessions[cur.sid].status["viajeros"])
    /\ UNCHANGED outsideWatcher
    /\ UNCHANGED <<now, unseen, arrived, delivered, processed, sessions, queue, cur,
                   pauseUntil, watchers, reports, crashes, sweepLog, sweepSkipped,
                   active>>

\* _send_combined_report: set the flag, then call the sink
SendCombined ==
    /\ pc = "send"
    /\ joinBranch = "combined"
    /\ sessions' = MarkSent(sessions, cur.sid)
    /\ reports' = Append(reports, Report(cur.sid, "combined", "both"))
    /\ pc' = "mark"
    /\ joinBranch' = "none"
    /\ UNCHANGED outsideWatcher
    /\ UNCHANGED <<now, unseen, arrived, delivered, processed, queue, cur, pauseUntil,
                   watchers, crashes, sweepLog, sweepSkipped, active>>

SingleKind(branch) == IF branch = "single_si" THEN "si" ELSE "viajeros"

\* _send_single_pipeline_report: set the flag, then call the sink
SendSingle ==
    /\ pc = "send"
    /\ joinBranch \in {"single_si", "single_viajeros"}
    /\ sessions' = MarkSent(sessions, cur.sid)
    /\ reports' = Append(reports, Report(cur.sid, "single", SingleKind(joinBranch)))
    /\ pc' = "mark"
    /\ joinBranch' = "none"
    /\ UNCHANGED outsideWatcher
    /\ UNCHANGED <<now, unseen, arrived, delivered, processed, queue, cur, pauseUntil,
                   watchers, crashes, sweepLog, sweepSkipped, active>>

\* _start_timeout_monitor: a new daemon thread, which first sleeps
StartMonitor ==
    /\ pc = "send"
    /\ joinBranch = "monitor"
    /\ watchers' = Append(watchers, [sid |-> cur.sid,
                                     wake |-> now + CheckInterval,
                                     branch |-> "sleep"])
    /\ pc' = "mark"
    /\ joinBranch' = "none"
    /\ UNCHANGED outsideWatcher
    /\ UNCHANGED <<now, unseen, arrived, delivered, processed, sessions, queue, cur,
                   pauseUntil, reports, crashes, sweepLog, sweepSkipped,
                   active>>

------------------------------------------------------------------------------
(* timeout_monitor threads *)

RemoveAt(s, i) == [j \in 1..(Len(s) - 1) |-> IF j < i THEN s[j] ELSE s[j + 1]]

\* WatcherPoll without the check of the wait timeout
WatcherPoll_no_timeout(i) ==
    /\ watchers[i].branch = "sleep"
    /\ now >= watchers[i].wake
    /\ LET sid == watchers[i].sid
           d   == IF sid \in DOMAIN sessions
                  THEN MonitorDecision(sessions[sid], now)
                  ELSE "stop"
       IN watchers' =
            IF d = "stop" THEN RemoveAt(watchers, i)
            ELSE IF d \in {"sleep", "timeout"}
                 THEN [watchers EXCEPT ![i].wake = now + CheckInterval]
            ELSE [watchers EXCEPT ![i].branch = d]
    /\ UNCHANGED outsideWatcher
    /\ UNCHANGED <<now, unseen, arrived, delivered, processed, sessions, pc, queue,
                   cur, joinBranch, pauseUntil, reports, crashes, sweepLog,
                   sweepSkipped, active>>

\* One pass of the loop after time.sleep(check_interval): the SELECT and the
\* choice of a branch.
WatcherPoll(i) ==
    /\ watchers[i].branch = "sleep"
    /\ now >= watchers[i].wake
    /\ LET sid == watchers[i].sid
           d   == IF sid \in DOMAIN sessions
                  THEN MonitorDecision(sessions[sid], now)
                  ELSE "stop"
       IN watchers' =
            IF d = "stop" THEN RemoveAt(watchers, i)
            ELSE IF d = "sleep"
                 THEN [watchers EXCEPT ![i].wake = now + CheckInterval]
            ELSE [watchers EXCEPT ![i].branch = d]
    /\ UNCHANGED outsideWatcher
    /\ UNCHANGED <<now, unseen, arrived, delivered, processed, sessions, pc, queue,
                   cur, joinBranch, pauseUntil, reports, crashes, sweepLog,
                   sweepSkipped, active>>

\* The report the watcher sends for its branch.  _send_timeout_report reads
\* the row again in the transaction that sets the flag.
WatcherReport(row, sid, branch) ==
    IF branch = "timeout" THEN Report(sid, TimeoutVariant(row), "both")
    ELSE IF branch = "combined" THEN Report(sid, "combined", "both")
    ELSE Report(sid, "single", SingleKind(branch))

\* The send chosen by the last poll, after which the thread ends
WatcherSend(i) ==
    /\ watchers[i].branch # "sleep"
    /\ LET sid == watchers[i].sid
       IN /\ sessions' = MarkSent(sessions, sid)
          /\ reports' = Append(reports,
                               WatcherReport(sessions[sid], sid, watchers[i].branch))
    /\ watchers' = RemoveAt(watchers, i)
    /\ UNCHANGED outsideWatcher
    /\ UNCHANGED <<now, unseen, arrived, delivered, processed, pc, queue, cur,
                   joinBranch, pauseUntil, crashes, sweepLog, sweepSkipped,
                   active>>

MonitorPoll == \E i \in DOMAIN watchers : WatcherPoll(i)

MonitorSend == \E i \in DOMAIN watchers : WatcherSend(i)

------------------------------------------------------------------------------

\* A matching message with the subject date of day 1 is delivered: a new one
\* of either kind, which gets the next Message-ID, or once more one that was
\* sent before (a re-delivery carries the same id and the same subject).
Arrive ==
    \/ \E k \in Kinds :
          /\ delivered' = Append(delivered, [kind |-> k, date |-> 1,
                                             trigger |-> TRUE])
          /\ Deliver([mid |-> Len(delivered) + 1, kind |-> k, date |-> 1,
                      trigger |-> TRUE])
    \/ \E mid \in DOMAIN delivered :
          /\ delivered' = delivered
          /\ Deliver([mid |-> mid, kind |-> delivered[mid].kind,
                      date |-> delivered[mid].date,
                      trigger |-> delivered[mid].trigger])

Next ==
    \/ Tick
    \/ Arrive
    \/ Crash
    \/ Sweep
    \/ AttachFail
    \/ AttachOk
    \/ GetSession
    \/ StartUpdate
    \/ EarlyFail
    \/ ValidationReject
    \/ Launch
    \/ ExecReturn
    \/ CompleteUpdate
    \/ CheckRead
    \/ SendCombined
    \/ SendSingle
    \/ StartMonitor
    \/ MarkDone
    \/ PauseEnd
    \/ MonitorPoll
    \/ MonitorSend

Spec == Init /\ [][Next]_vars

\* The steps of the watcher's worker thread
Worker ==
    \/ Sweep
    \/ AttachFail
    \/ AttachOk
    \/ GetSession
    \/ StartUpdate
    \/ EarlyFail
    \/ ValidationReject
    \/ Launch
    \/ ExecReturn
    \/ CompleteUpdate
    \/ CheckRead
    \/ SendCombined
    \/ SendSingle
    \/ StartMonitor
    \/ MarkDone
    \/ PauseEnd

\* Time passes, the worker thread and the timeout_monitor threads keep
\* running: every database call and every send returns, every time.sleep
\* ends.
SpecFair ==
    /\ Spec
    /\ WF_vars(Tick)
    /\ WF_vars(Worker)
    /\ WF_vars(MonitorPoll)
    /\ WF_vars(MonitorSend)

------------------------------------------------------------------------------
(* The coordinator with a report sink that can refuse: send_report or     *)
(* send_unified_pipeline_report returns False or raises.                  *)

\* _send_combined_report when the sink fails: the flag is set, the failure
\* is logged
SendCombinedFail ==
    /\ pc = "send"
    /\ joinBranch = "combined"
    /\ sessions' = MarkSent(sessions, cur.sid)
    /\ pc' = "mark"
    /\ joinBranch' = "none"
    /\ UNCHANGED outsideWatcher
    /\ UNCHANGED <<now, unseen, arrived, delivered, processed, queue, cur,
                   pauseUntil, watchers, reports, crashes, sweepLog,
                   sweepSkipped, active>>

\* _send_single_pipeline_report when the sink fails
SendSingleFail ==
    /\ pc = "send"
    /\ joinBranch \in {"single_si", "single_viajeros"}
    /\ sessions' = MarkSent(sessions, cur.sid)
    /\ pc' = "mark"
    /\ joinBranch' = "none"
    /\ UNCHANGED outsideWatcher
    /\ UNCHANGED <<now, unseen, arrived, delivered, processed, queue, cur,
                   pauseUntil, watchers, reports, crashes, sweepLog,
                   sweepSkipped, active>>

\* The send chosen by a watcher's last poll when the sink fails; the thread
\* ends all the same
WatcherSendFail(i) ==
    /\ watchers[i].branch # "sleep"
    /\ sessions' = MarkSent(sessions, watchers[i].sid)
    /\ watchers' = RemoveAt(watchers, i)
    /\ UNCHANGED outsideWatcher
    /\ UNCHANGED <<now, unseen, arrived, delivered, processed, pc, queue, cur,
                   joinBranch, pauseUntil, reports, crashes, sweepLog,
                   sweepSkipped, active>>

MonitorSendFail == \E i \in DOMAIN watchers : WatcherSendFail(i)

NextSink ==
    \/ Next
    \/ SendCombinedFail
    \/ SendSingleFail
    \/ MonitorSendFail

SpecSink == Init /\ [][NextSink]_vars

------------------------------------------------------------------------------
(* The sweep on its own: any mail, on a working day or on a Saturday, with  *)
(* an empty session table and no restart.                                   *)

SaturdayStart == 5 * SecondsPerDay

\* What detect_pipeline_type can answer
DetectedKinds == Kinds \cup {"unknown"}

\* The subjects a new message can carry: one that matches the trigger
\* patterns and names a pipeline, dated or not; one that matches and names
\* no pipeline; or one that does not match.
Subjects ==
    [kind : Kinds, date : 0..MaxDate, trigger : {TRUE}]
    \cup [kind : {"unknown"}, date : {NoDate}, trigger : BOOLEAN]

WithId(mid, subj) ==
    [mid |-> mid, kind |-> subj.kind, date |-> subj.date,
     trigger |-> subj.trigger]

\* Any message is delivered: a new one with the next Message-ID, one without
\* a Message-ID header, or once more one that was sent before.
ArriveAny ==
    /\ pc = "idle"
    /\ arrived < MaxSweepMsgs
    /\ arrived' = arrived + 1
    /\ \/ \E subj \in Subjects :
             /\ delivered' = Append(delivered, subj)
             /\ unseen' = Append(unseen, WithId(Len(delivered) + 1, subj))
       \/ \E subj \in Subjects :
             /\ delivered' = delivered
             /\ unseen' = Append(unseen, WithId(NoMid, subj))
       \/ \E mid \in DOMAIN delivered :
             /\ delivered' = delivered
             /\ unseen' = Append(unseen, WithId(mid, delivered[mid]))
    /\ UNCHANGED outsideWatcher
    /\ UNCHANGED <<now, processed, sessions, pc, queue, cur, joinBranch,
                   pauseUntil, watchers, reports, crashes, sweepLog,
                   sweepSkipped, active>>

\* time.sleep(2) between two items of a group passes.  The other steps of a
\* sweep are taken to happen within the second in which it starts.
SleepBetweenItems ==
    /\ pc = "pause"
    /\ pauseUntil > now
    /\ now' = pauseUntil
    /\ UNCHANGED outsideWatcher
    /\ UNCHANGED <<unseen, arrived, delivered, processed, sessions, pc, queue,
                   cur, joinBranch, pauseUntil, watchers, reports, crashes,
                   sweepLog, sweepSkipped, active>>

InitSweep ==
    /\ now \in {0, SaturdayStart}
    /\ unseen = <<>>
    /\ arrived = 0
    /\ delivered = <<>>
    /\ processed = {}
    /\ sessions = NoSessions
    /\ pc = "idle"
    /\ queue = <<>>
    /\ cur = NoItem
    /\ joinBranch = "none"
    /\ pauseUntil = 0
    /\ watchers = <<>>
    /\ reports = <<>>
    /\ crashes = 0
    /\ sweepLog = <<>>
    /\ sweepSkipped = {}
    /\ active = 0
    /\ NoEmissionStep
    /\ Monitoring
    /\ NoStatistics
    /\ NoDataFiles
    /\ NoReconnect

NextSweep ==
    \/ SleepBetweenItems
    \/ ArriveAny
    \/ Sweep
    \/ AttachFail
    \/ AttachOk
    \/ GetSession
    \/ StartUpdate
    \/ EarlyFail
    \/ ValidationReject
    \/ Launch
    \/ ExecReturn
    \/ CompleteUpdate
    \/ CheckRead
    \/ SendSingle
    \/ MarkDone
    \/ PauseEnd

SpecSweep == InitSweep /\ [][NextSweep]_vars

------------------------------------------------------------------------------
(* The emission step on its own: one run of an entry point over the file   *)
(* of create_single_emission, the external workflow answering as it likes. *)

\* First call of the external workflow and everything the entry point does
\* with its answer up to the second call or to its return.
FirstAttempt ==
    /\ step = "start"
    /\ \E o \in Answers(emisiones) :
        LET exitosas == Exitosas(emisiones, o)
            fallidas == Fallidas(emisiones, o)
            named == NamedFailures(entry, fallidas)
            fl == FilterFor(entry, emisiones, named)
            retry == WillRetry(entry, fl)
        IN  /\ submitted' = Append(submitted,
                                   [file |-> emisiones, answer |-> o])
            /\ emisiones_exitosas' = exitosas
            /\ emisiones_fallidas' = fallidas
            /\ filtered' = fl.json
            /\ removed_individuals' = fl.removed
            /\ failed_individuals_data' =
                   FailedData(entry, named, fl.removed)
            /\ all_failed_individuals' =
                   IF entry = "enhanced_main" /\ fl.removed = <<>>
                   THEN <<>>
                   ELSE AllFound(named, Len(named))
            /\ successful_emissions' =
                   IF retry /\ entry = "corrected_main"
                   THEN <<>>
                   ELSE exitosas
            /\ step' = IF retry THEN "retry" ELSE "done"
    /\ UNCHANGED <<entry, emisiones>>
    /\ UNCHANGED outsideEmission

RetryAttempt_again ==
    /\ step = "retry"
    /\ \E o \in Answers(filtered) :
        /\ submitted' = Append(submitted, [file |-> filtered, answer |-> o])
        /\ successful_emissions' =
               IF entry = "corrected_main"
               THEN Exitosas(filtered, o)
               ELSE successful_emissions \o Exitosas(filtered, o)
        /\ step' = IF \E g \in DOMAIN filtered : ~o[g].ok
                   THEN "retry"
                   ELSE "done"
    /\ UNCHANGED <<entry, emisiones, emisiones_exitosas, emisiones_fallidas,
                   filtered, removed_individuals, failed_individuals_data,
                   all_failed_individuals>>
    /\ UNCHANGED outsideEmission

\* Second call of the external workflow, on the filtered file; whatever it
\* answers, the entry point returns.
RetryAttempt ==
    /\ step = "retry"
    /\ \E o \in Answers(filtered) :
        /\ submitted' = Append(submitted, [file |-> filtered, answer |-> o])
        /\ successful_emissions' =
               IF entry = "corrected_main"
               THEN Exitosas(filtered, o)
               ELSE successful_emissions \o Exitosas(filtered, o)
    /\ step' = "done"
    /\ UNCHANGED <<entry, emisiones, emisiones_exitosas, emisiones_fallidas,
                   filtered, removed_individuals, failed_individuals_data,
                   all_failed_individuals>>
    /\ UNCHANGED outsideEmission

\* The watcher while its worker waits for the SI workflow subprocess
WatcherAtWorkflow ==
    /\ now = 0
    /\ unseen = <<>>
    /\ arrived = 0
    /\ delivered = <<>>
    /\ processed = {}
    /\ sessions = NoSessions
    /\ pc = "exec"
    /\ queue = <<>>
    /\ cur = NoItem
    /\ joinBranch = "none"
    /\ pauseUntil = 0
    /\ watchers = <<>>
    /\ reports = <<>>
    /\ crashes = 0
    /\ sweepLog = <<>>
    /\ sweepSkipped = {}
    /\ active = 1

\* An entry point of es is about to process one of the files
EmissionStart(es, files) ==
    /\ entry \in es
    /\ emisiones \in files
    /\ step = "start"
    /\ submitted = <<>>
    /\ emisiones_exitosas = <<>>
    /\ emisiones_fallidas = <<>>
    /\ filtered = <<>>
    /\ removed_individuals = <<>>
    /\ successful_emissions = <<>>
    /\ failed_individuals_data = <<>>
    /\ all_failed_individuals = <<>>

InitRetry ==
    /\ WatcherAtWorkflow
    /\ Monitoring
    /\ NoStatistics
    /\ NoDataFiles
    /\ NoReconnect
    /\ EmissionStart(Entries, SingleEmissions)

NextRetry ==
    \/ FirstAttempt
    \/ RetryAttempt

SpecRetry == InitRetry /\ [][NextRetry]_vars

\* The emission step keeps running: each call of the external workflow
\* returns and the interpreter goes on to the next statement.
SpecRetryFair == SpecRetry /\ WF_vars(NextRetry)

------------------------------------------------------------------------------
(* The emission step over a file of several invoices.  The two entry       *)
(* points that filter a whole file (corrected_main, main) iterate over     *)
(* every invoice of the file they are given; create_single_emission only   *)
(* ever writes one.                                                        *)

FileEntries == {"corrected_main", "main"}

BatchFiles ==
    [1..MaxInvoices -> {ins \in InsuredLists : Len(ins) <= MaxBatchMembers}]

InitBatch ==
    /\ WatcherAtWorkflow
    /\ Monitoring
    /\ NoStatistics
    /\ NoDataFiles
    /\ NoReconnect
    /\ EmissionStart(FileEntries, BatchFiles)

SpecBatch == InitBatch /\ [][NextRetry]_vars

------------------------------------------------------------------------------
(* The connection loop on its own.  The server goes down and comes back    *)
(* as it likes; a client made before an outage is dead from then on.       *)
(* process_new_unseen catches every exception itself, so a sweep on a dead *)
(* client fails without the loops noticing.                                *)

ServerDown ==
    /\ up
    /\ up' = FALSE
    /\ client' = IF client = "alive" THEN "dead" ELSE client
    /\ swept' = FALSE
    /\ UNCHANGED <<mainAt, hasIdle, POLL_INTERVAL, consecutive_failures,
                   ssl_failure_count, use_idle, consecutive_idle_failures,
                   consecutive_polling_failures, backoff, ssl_error, cause,
                   idleCalled, downgraded>>
    /\ UNCHANGED outsideConn

ServerUp ==
    /\ ~up
    /\ up' = TRUE
    /\ UNCHANGED <<mainAt, client, hasIdle, POLL_INTERVAL,
                   consecutive_failures, ssl_failure_count, use_idle,
                   consecutive_idle_failures, consecutive_polling_failures,
                   backoff, ssl_error, cause, idleCalled, downgraded, swept>>
    /\ UNCHANGED outsideConn

HandleFailure_fatal(e) ==
    /\ consecutive_failures' = consecutive_failures + 1
    /\ ssl_error' = is_ssl_error(e)
    /\ ssl_failure_count' =
           IF is_ssl_error(e)
           THEN ssl_failure_count + 1
           ELSE ssl_failure_count
    /\ client' = "none"
    /\ backoff' = calculate_backoff(consecutive_failures + 1, is_ssl_error(e))
    /\ mainAt' = "exited"

\* main's except block for the exception e, up to its time.sleep(backoff)
HandleFailure(e) ==
    /\ consecutive_failures' = consecutive_failures + 1
    /\ ssl_error' = is_ssl_error(e)
    /\ ssl_failure_count' =
           IF is_ssl_error(e)
           THEN ssl_failure_count + 1
           ELSE ssl_failure_count
    /\ client' = "none"
    /\ backoff' = calculate_backoff(consecutive_failures + 1, is_ssl_error(e))
    /\ mainAt' = "backoff"

ConnectOk_keep_counters ==
    /\ mainAt = "connect"
    /\ up
    /\ client' = "alive"
    /\ use_idle' = (POLL_INTERVAL = PreferIdle)
    /\ mainAt' = IF POLL_INTERVAL = PreferIdle
                 THEN "idle_start"
                 ELSE "poll_start"
    /\ idleCalled' = FALSE
    /\ swept' = FALSE
    /\ cause' = NoError
    /\ UNCHANGED <<up, hasIdle, POLL_INTERVAL, consecutive_failures,
                   ssl_failure_count, consecutive_idle_failures,
                   consecutive_polling_failures, backoff, ssl_error,
                   downgraded>>
    /\ UNCHANGED outsideConn

\* One round of main's loop with client None: reconnect_imap, capabilities,
\* and either the start of idle_loop or the except block.
ConnectOk ==
    /\ mainAt = "connect"
    /\ up
    /\ client' = "alive"
    /\ consecutive_failures' = 0
    /\ ssl_failure_count' = 0
    /\ use_idle' = (POLL_INTERVAL = PreferIdle)
    /\ mainAt' = IF POLL_INTERVAL = PreferIdle
                 THEN "idle_start"
                 ELSE "poll_start"
    /\ idleCalled' = FALSE
    /\ swept' = FALSE
    /\ cause' = NoError
    /\ UNCHANGED <<up, hasIdle, POLL_INTERVAL, consecutive_idle_failures,
                   consecutive_polling_failures, backoff, ssl_error,
                   downgraded>>
    /\ UNCHANGED outsideConn

\* Every strategy of reconnect_imap fails with the error e; reconnect_imap
\* logs it and returns None, main raises its own exception.
ConnectFail ==
    /\ mainAt = "connect"
    /\ ~up
    /\ consecutive_failures < MaxFailures
    /\ \E e \in TransportErrors :
        /\ cause' = e
        /\ HandleFailure(FailedAllStrategies)
    /\ swept' = FALSE
    /\ UNCHANGED <<up, hasIdle, POLL_INTERVAL, use_idle,
                   consecutive_idle_failures, consecutive_polling_failures,
                   idleCalled, downgraded>>
    /\ UNCHANGED outsideConn

\* reconnect_imap returns a client, the connection is lost and
\* client.capabilities() raises e.
CapabilitiesFail ==
    /\ mainAt = "connect"
    /\ ~up
    /\ consecutive_failures < MaxFailures
    /\ \E e \in TransportErrors :
        /\ cause' = e
        /\ HandleFailure(e)
    /\ swept' = FALSE
    /\ UNCHANGED <<up, hasIdle, POLL_INTERVAL, use_idle,
                   consecutive_idle_failures, consecutive_polling_failures,
                   idleCalled, downgraded>>
    /\ UNCHANGED outsideConn

\* time.sleep(backoff) ends and main's loop starts over
BackoffEnd ==
    /\ mainAt = "backoff"
    /\ mainAt' = "connect"
    /\ swept' = FALSE
    /\ UNCHANGED <<client, up, hasIdle, POLL_INTERVAL, consecutive_failures,
                   ssl_failure_count, use_idle, consecutive_idle_failures,
                   consecutive_polling_failures, backoff, ssl_error, cause,
                   idleCalled, downgraded>>
    /\ UNCHANGED outsideConn

\* idle_with_keepalive up to its loop: the first sweep
IdleStart ==
    /\ mainAt = "idle_start"
    /\ swept' = (client = "alive")
    /\ consecutive_idle_failures' = 0
    /\ mainAt' = "idle_cycle"
    /\ UNCHANGED <<client, up, hasIdle, POLL_INTERVAL, consecutive_failures,
                   ssl_failure_count, use_idle, consecutive_polling_failures,
                   backoff, ssl_error, cause, idleCalled, downgraded>>
    /\ UNCHANGED outsideConn

\* One pass of idle_with_keepalive's loop: keepalive, connection test,
\* client.idle(), the idle checks, idle_done and the sweep; or its except
\* block, which gives up IDLE at the third failure in a row.
IdleCycle ==
    /\ mainAt = "idle_cycle"
    /\ IF client = "alive" /\ hasIdle
       THEN /\ idleCalled' = TRUE
            /\ consecutive_idle_failures' = 0
            /\ swept' = TRUE
            /\ UNCHANGED <<mainAt, use_idle, downgraded>>
       ELSE /\ idleCalled' = (idleCalled \/ client = "alive")
            /\ consecutive_idle_failures' = consecutive_idle_failures + 1
            /\ swept' = FALSE
            /\ IF consecutive_idle_failures + 1 >= max_idle_failures
               THEN /\ use_idle' = FALSE
                    /\ downgraded' = TRUE
                    /\ mainAt' = "poll_start"
               ELSE UNCHANGED <<mainAt, use_idle, downgraded>>
    /\ UNCHANGED <<client, up, hasIdle, POLL_INTERVAL, consecutive_failures,
                   ssl_failure_count, consecutive_polling_failures, backoff,
                   ssl_error, cause>>
    /\ UNCHANGED outsideConn

\* polling_loop_with_interval up to its loop: the first sweep
PollStart ==
    /\ mainAt = "poll_start"
    /\ swept' = (client = "alive")
    /\ consecutive_polling_failures' = 0
    /\ mainAt' = "poll_cycle"
    /\ UNCHANGED <<client, up, hasIdle, POLL_INTERVAL, consecutive_failures,
                   ssl_failure_count, use_idle, consecutive_idle_failures,
                   backoff, ssl_error, cause, idleCalled, downgraded>>
    /\ UNCHANGED outsideConn

\* PollCycle that tries IDLE again after a sweep that worked
PollCycle_retry_idle ==
    /\ mainAt = "poll_cycle"
    /\ IF client = "alive"
       THEN /\ consecutive_polling_failures' = 0
            /\ swept' = TRUE
            /\ mainAt' = IF POLL_INTERVAL = PreferIdle
                         THEN "idle_start"
                         ELSE mainAt
            /\ UNCHANGED client
       ELSE /\ consecutive_polling_failures' =
                   consecutive_polling_failures + 1
            /\ swept' = FALSE
            /\ IF consecutive_polling_failures + 1 >= max_polling_failures
               THEN /\ client' = "none"
                    /\ mainAt' = "connect"
               ELSE UNCHANGED <<mainAt, client>>
    /\ UNCHANGED <<up, hasIdle, POLL_INTERVAL, consecutive_failures,
                   ssl_failure_count, use_idle, consecutive_idle_failures,
                   backoff, ssl_error, cause, idleCalled, downgraded>>
    /\ UNCHANGED outsideConn

\* One pass of polling_loop_with_interval's loop: sleep, connection test and
\* sweep; or its except block, which at the third failure in a row returns
\* False through idle_loop to main, where the client is logged out and the
\* loop continues.
PollCycle ==
    /\ mainAt = "poll_cycle"
    /\ IF client = "alive"
       THEN /\ consecutive_polling_failures' = 0
            /\ swept' = TRUE
            /\ UNCHANGED <<mainAt, client>>
       ELSE /\ consecutive_polling_failures' =
                   consecutive_polling_failures + 1
            /\ swept' = FALSE
            /\ IF consecutive_polling_failures + 1 >= max_polling_failures
               THEN /\ client' = "none"
                    /\ mainAt' = "connect"
               ELSE UNCHANGED <<mainAt, client>>
    /\ UNCHANGED <<up, hasIdle, POLL_INTERVAL, consecutive_failures,
                   ssl_failure_count, use_idle, consecutive_idle_failures,
                   backoff, ssl_error, cause, idleCalled, downgraded>>
    /\ UNCHANGED outsideConn

\* The watcher has just been started
\* The watcher's worker with nothing to do
WatcherIdle ==
    /\ now = 0
    /\ unseen = <<>>
    /\ arrived = 0
    /\ delivered = <<>>
    /\ processed = {}
    /\ sessions = NoSessions
    /\ pc = "idle"
    /\ queue = <<>>
    /\ cur = NoItem
    /\ joinBranch = "none"
    /\ pauseUntil = 0
    /\ watchers = <<>>
    /\ reports = <<>>
    /\ crashes = 0
    /\ sweepLog = <<>>
    /\ sweepSkipped = {}
    /\ active = 0

\* main() has initialised its counters and is about to connect
\* main() before its first connect, on a server that is reachable or not
InitConnection ==
    /\ mainAt = "connect"
    /\ client = "none"
    /\ up \in BOOLEAN
    /\ hasIdle \in BOOLEAN
    /\ POLL_INTERVAL \in {PreferIdle, SomeInterval}
    /\ consecutive_failures = 0
    /\ ssl_failure_count = 0
    /\ use_idle = FALSE
    /\ consecutive_idle_failures = 0
    /\ consecutive_polling_failures = 0
    /\ backoff = 0
    /\ ssl_error = FALSE
    /\ cause = NoError
    /\ idleCalled = FALSE
    /\ downgraded = FALSE
    /\ swept = FALSE

InitConn ==
    /\ WatcherIdle
    /\ NoEmissionStep
    /\ NoStatistics
    /\ NoDataFiles
    /\ NoReconnect
    /\ InitConnection

NextMain ==
    \/ ConnectOk
    \/ ConnectFail
    \/ CapabilitiesFail
    \/ BackoffEnd
    \/ IdleStart
    \/ IdleCycle
    \/ PollStart
    \/ PollCycle

NextConn ==
    \/ ServerDown
    \/ ServerUp
    \/ NextMain

SpecConn == InitConn /\ [][NextConn]_vars

\* main() keeps running: every call returns or raises, every sleep ends
SpecConnFair == SpecConn /\ WF_vars(NextMain)

------------------------------------------------------------------------------
(* The statistics manager under any sequence of calls for the two         *)
(* pipelines.  A call runs to its end before the next one starts.         *)

\* save_pipeline_stats / save_pipeline_execution_stats
save_pipeline_stats(pipeline_type, stats) ==
    /\ Len(calls) < MaxCalls
    /\ LET t == Len(calls) + 1
           saved == write_file(stats_files, stats_file_of(pipeline_type),
                               stats_with_meta(pipeline_type, stats, t))
       IN stats_files' = update_combined_stats(saved, t)
    /\ calls' = Append(calls, [op |-> "save", pipeline_type |-> pipeline_type,
                               stats |-> stats])
    /\ UNCHANGED outsideStats

\* clear_stats that leaves the combined file as it is
clear_stats_stale(pipeline_type) ==
    /\ Len(calls) < MaxCalls
    /\ stats_files' =
           IF pipeline_type = "None"
           THEN unlink(unlink(unlink(stats_files, viajeros_stats_file),
                              si_stats_file), combined_stats_file)
           ELSE unlink(stats_files, stats_file_of(pipeline_type))
    /\ calls' = Append(calls, [op |-> "clear",
                               pipeline_type |-> pipeline_type])
    /\ UNCHANGED outsideStats

\* clear_stats / clear_execution_stats: without a pipeline type the three
\* files are removed; with one, its file is removed and the combined file
\* is written again.
clear_stats(pipeline_type) ==
    /\ Len(calls) < MaxCalls
    /\ stats_files' =
           IF pipeline_type = "None"
           THEN unlink(unlink(unlink(stats_files, viajeros_stats_file),
                              si_stats_file), combined_stats_file)
           ELSE update_combined_stats(
                    unlink(stats_files, stats_file_of(pipeline_type)),
                    Len(calls) + 1)
    /\ calls' = Append(calls, [op |-> "clear",
                               pipeline_type |-> pipeline_type])
    /\ UNCHANGED outsideStats

InitStats ==
    /\ WatcherIdle
    /\ NoEmissionStep
    /\ Monitoring
    /\ NoStatistics
    /\ NoDataFiles
    /\ NoReconnect

NextStats ==
    \/ \E pipeline_type \in PipelineTypes, stats \in StatsDicts :
           save_pipeline_stats(pipeline_type, stats)
    \/ \E pipeline_type \in PipelineTypes \cup {"None"} :
           clear_stats(pipeline_type)

SpecStats == InitStats /\ [][NextStats]_vars

------------------------------------------------------------------------------
(* Runs of the SI workflow one after the other, each through              *)
(* run_si_pipeline and the subprocess of corrected_main.                  *)

\* The files of these runs
RunFiles == {j \in SingleEmissions : Len(j[1]) <= MaxRunMembers}

\* Steps 4 and 5 of run_si_pipeline_with_corrected_filtering and the end of
\* the subprocess: when the run has failed individuals data the two files
\* are written (the latest file twice, with the same lists), otherwise the
\* data directory is left as it is; the statistics of the run are saved.
SaveResults ==
    /\ step = "done"
    /\ data_files' =
           IF failed_individuals_data # <<>>
           THEN write_file(
                    write_file(data_files, failed_data_file,
                               failed_individuals_data),
                    failed_individuals_file,
                    [failed_individuals_data |-> failed_individuals_data,
                     all_failed_individuals |-> all_failed_individuals,
                     timestamp |-> Len(runs) + 1])
           ELSE data_files
    /\ LET t == Len(calls) + 1
           stats == [successful |-> Len(successful_emissions),
                     failed |-> Len(all_failed_individuals),
                     total_processed |-> Len(successful_emissions)
                                         + Len(all_failed_individuals)]
       IN /\ stats_files' =
                 update_combined_stats(
                     write_file(stats_files, si_stats_file,
                                stats_with_meta("si", stats, t)), t)
          /\ calls' = Append(calls, [op |-> "save", pipeline_type |-> "si",
                                     stats |-> stats])
    /\ runs' = Append(runs, all_failed_individuals)
    /\ step' = "saved"
    /\ UNCHANGED <<entry, emisiones, submitted, emisiones_exitosas,
                   emisiones_fallidas, filtered, removed_individuals,
                   successful_emissions, failed_individuals_data,
                   all_failed_individuals>>
    /\ UNCHANGED <<watcherVars, connVars, reconnectVars>>

\* A run that ends before the emission step: the old file is missing, the
\* validation rejects the file, the comparison fails or finds no new
\* record.  Nothing is written to the data directory.
RunWithoutEmission ==
    /\ step = "start"
    /\ runs' = Append(runs, <<>>)
    /\ step' = "saved"
    /\ UNCHANGED <<entry, emisiones, submitted, emisiones_exitosas,
                   emisiones_fallidas, filtered, removed_individuals,
                   successful_emissions, failed_individuals_data,
                   all_failed_individuals, data_files>>
    /\ UNCHANGED <<watcherVars, connVars, statsVars, reconnectVars>>

\* The next mail starts the next run, on a new file
StartRun ==
    /\ step = "saved"
    /\ Len(runs) < MaxRuns
    /\ emisiones' \in RunFiles
    /\ step' = "start"
    /\ submitted' = <<>>
    /\ emisiones_exitosas' = <<>>
    /\ emisiones_fallidas' = <<>>
    /\ filtered' = <<>>
    /\ removed_individuals' = <<>>
    /\ successful_emissions' = <<>>
    /\ failed_individuals_data' = <<>>
    /\ all_failed_individuals' = <<>>
    /\ UNCHANGED <<entry, data_files, runs>>
    /\ UNCHANGED <<watcherVars, connVars, statsVars, reconnectVars>>

InitRuns ==
    /\ WatcherAtWorkflow
    /\ Monitoring
    /\ NoStatistics
    /\ NoDataFiles
    /\ NoReconnect
    /\ EmissionStart({"corrected_main"}, RunFiles)

NextRuns ==
    \/ FirstAttempt
    \/ RetryAttempt
    \/ SaveResults
    \/ RunWithoutEmission
    \/ StartRun

SpecRuns == InitRuns /\ [][NextRuns]_vars

------------------------------------------------------------------------------
(* main() calling reconnect_imap again and again, each strategy ending at  *)
(* any of its calls.                                                       *)

\* main() calls reconnect_imap
ReconnectStart ==
    /\ strategy = 0
    /\ mainAt = "connect"
    /\ Len(attempts) + Len(connection_strategies) <= MaxAttempts
    /\ strategy' = 1
    /\ UNCHANGED <<USE_SSL, attempts>>
    /\ UNCHANGED outsideReconnect

\* One pass of the loop over connection_strategies: the connection is
\* opened as the strategy says, the login is sent on it; the pass returns
\* the client or ends in the except block, which goes on to the next
\* strategy and, after the last one, lets reconnect_imap return None.
TryStrategy ==
    /\ strategy \in DOMAIN connection_strategies
    /\ \E outcome \in StrategyOutcomes :
        /\ attempts' = Append(attempts,
               [ssl |-> connection_strategies[strategy].ssl,
                port |-> connection_strategies[strategy].port,
                login |-> outcome # "connect_failed",
                outcome |-> outcome])
        /\ strategy' = IF outcome = "ok"
                          \/ strategy = Len(connection_strategies)
                       THEN 0
                       ELSE strategy + 1
    /\ UNCHANGED USE_SSL
    /\ UNCHANGED outsideReconnect

InitReconnect ==
    /\ WatcherIdle
    /\ NoEmissionStep
    /\ NoStatistics
    /\ NoDataFiles
    /\ InitConnection
    /\ USE_SSL \in BOOLEAN
    /\ strategy = 0
    /\ attempts = <<>>

NextReconnect ==
    \/ ReconnectStart
    \/ TryStrategy

SpecReconnect == InitReconnect /\ [][NextReconnect]_vars

------------------------------------------------------------------------------
(* Properties *)

TimeoutVariants == {"timeout_only_si", "timeout_only_viajeros",
                    "timeout_coordination_failed", "timeout_none_active"}

\* The reports the coordinator emits for a session
CoordinatorVariants == {"combined", "single"} \cup TimeoutVariants

\* Positions in the sink's log of the reports about session sid
ReportsOf(sid) == {i \in DOMAIN reports : reports[i].sid = sid}

CoordinatorReportsOf(sid) ==
    {i \in ReportsOf(sid) : reports[i].variant \in CoordinatorVariants}

\* A step that appends one report to the sink's log
Emits == Len(reports') = Len(reports) + 1

Emitted == reports'[Len(reports')]

\* The step of the worker that leaves _check_and_send_combined_report's SELECT
JoinCheckStep == pc = "check" /\ pc' # "check"

\* The row is there and its report has not been sent
Unsent(sid) == sid \in DOMAIN sessions /\ ~sessions[sid].combined_report_sent

\* The worker is idle, no watcher thread is alive, the process never died
Settled == pc = "idle" /\ watchers = <<>> /\ crashes = 0

------------------------------------------------------------------------------
\* C1: for every session, whatever the interleaving of join checks and
\* timeout watchers, the coordinator emits at most one report.
C1_AtMostOneReportPerSession ==
    \A sid \in DOMAIN sessions : Cardinality(CoordinatorReportsOf(sid)) <= 1

\* C2: once everything has settled, every session in which some kind reached
\* completed or failed has exactly one report: not zero, not two.
C2_ExactlyOneReportPerOutcome ==
    Settled =>
        \A sid \in DOMAIN sessions :
            (\E k \in Kinds : Terminal(sessions[sid].status[k]))
                => Cardinality(ReportsOf(sid)) = 1

\* C3: when one sweep dispatched an SI and a Viajeros message and both
\* workflows ran and succeeded, the two ran in the same session and the only report
\* about them is one combined report.
C3_SameSweepCombined ==
    (/\ Settled
     /\ Len(sweepLog) = 2
     /\ {sweepLog[i].kind : i \in DOMAIN sweepLog} = Kinds
     /\ \A i \in DOMAIN sweepLog : /\ sweepLog[i].ran
                                    /\ sweepLog[i].outcome = "completed")
    => /\ sweepLog[1].sid = sweepLog[2].sid
       /\ Cardinality(ReportsOf(sweepLog[1].sid)) = 1
       /\ \A i \in ReportsOf(sweepLog[1].sid) : reports[i].variant = "combined"

C6_CombinedAtOnce ==
    [][/\ (/\ JoinCheckStep
           /\ Unsent(cur.sid)
           /\ \A k \in Kinds : Terminal(sessions[cur.sid].status[k]))
          => /\ pc' = "send"
             /\ joinBranch' = "combined"
       /\ (pc = "send" /\ joinBranch = "combined" /\ pc' # "send")
          => /\ reports' = Append(reports, Report(cur.sid, "combined", "both"))
             /\ sessions'[cur.sid].combined_report_sent
             /\ pc' = "mark"]_vars

C6_Witness ==
    /\ pc = "mark"
    /\ reports # <<>>
    /\ reports[Len(reports)] = Report(cur.sid, "combined", "both")
    /\ cur.sid \in DOMAIN sessions
    /\ sessions[cur.sid].combined_report_sent
    /\ \E k \in Kinds : sessions[cur.sid].status[k] = "failed"

\* C7: start returns the most recently created session among those created
\* within the last 10 minutes whose report is unsent, if there is one;
\* otherwise it creates a session with both kinds pending and returns the
\* id of that new session; then it records the kind as running, with a
\* start timestamp, in the session it returned.
C7_StartReusesOrCreates ==
    [][/\ (pc = "get_session" /\ pc' # "get_session")
          => LET open == {id \in DOMAIN sessions :
                            /\ sessions[id].created_at > now - SessionWindowSecs
                            /\ ~sessions[id].combined_report_sent}
             IN IF open # {}
                THEN /\ cur'.sid \in open
                     /\ \A o \in open : sessions[o].created_at
                                          <= sessions[cur'.sid].created_at
                     /\ sessions' = sessions
                ELSE /\ cur'.sid \notin DOMAIN sessions
                     /\ cur'.sid \in DOMAIN sessions'
                     /\ \A k \in Kinds : sessions'[cur'.sid].status[k] = "pending"
       /\ (pc = "start_update" /\ pc' # "start_update")
          => /\ cur.sid \in DOMAIN sessions'
             /\ sessions'[cur.sid].status[cur.kind] = "running"
             /\ sessions'[cur.sid].started_at[cur.kind] = now]_vars

\* C8: start never returns the id of a session whose report has been sent,
\* and no report is emitted for a session whose report has been sent; the
\* process may have been restarted in between.
C8_ReportedSessionClosed ==
    [][/\ (pc = "get_session" /\ pc' # "get_session")
          => ~(/\ cur'.sid \in DOMAIN sessions
               /\ sessions[cur'.sid].combined_report_sent)
       /\ (Emits /\ Emitted.variant \in CoordinatorVariants)
          => ~(/\ Emitted.sid \in DOMAIN sessions
               /\ sessions[Emitted.sid].combined_report_sent)]_vars

\* C9: once combined_report_sent is set for a session, no step changes a
\* per-kind status of that session and the flag stays set.
C9_ReportSentTerminal ==
    [][\A sid \in DOMAIN sessions :
          sessions[sid].combined_report_sent
             => /\ sid \in DOMAIN sessions'
                /\ sessions'[sid].status = sessions[sid].status
                /\ sessions'[sid].combined_report_sent]_vars

\* C10: a row of the dedup store is never deleted or changed, also when the
\* process restarts; a sweep admits no message whose id has a row; and only
\* what the last sweep admitted is handed to a workflow.
C10_DoneStaysDone ==
    [][/\ \A r \in processed : r \in processed'
       /\ (pc = "idle" /\ unseen # <<>> /\ unseen' = <<>>)
          => \A i \in DOMAIN queue' :
                \A r \in processed : r.mid # queue'[i].mid
       /\ (pc = "attach" /\ pc' = "get_session")
          => /\ queue # <<>>
             /\ cur'.mid = Head(queue).mid]_vars

\* After a restart, a re-delivered message whose id has a row was skipped
C10_Witness ==
    /\ crashes = 1
    /\ sweepSkipped # {}
    /\ \A mid \in sweepSkipped : \E r \in processed : r.mid = mid

------------------------------------------------------------------------------
(* Properties of the sweep *)

\* The step of process_new_unseen that fetches the mailbox
SweepStep == pc = "idle" /\ unseen # <<>> /\ unseen' = <<>>

\* The step that calls mark_done for the current item
MarkStep == pc = "mark" /\ pc' # "mark"

\* The step that hands the head of the queue to process_email
DispatchStep == pc = "attach" /\ pc' = "get_session"

\* The step in which pre-processing of the head of the queue fails
PreprocessFailStep == pc = "attach" /\ pc' # "attach" /\ pc' # "get_session"

HasRow(tbl, mid) == \E r \in tbl : r.mid = mid

\* Positions of the mailbox whose message matches and carries no Message-ID
Anonymous(msgs) == {i \in DOMAIN msgs : msgs[i].mid = NoMid /\ msgs[i].trigger}

\* Positions of the queue whose item carries no Message-ID
AnonymousQueued(q) == {i \in DOMAIN q : q[i].mid = NoMid}

\* C11: mark_done for an id that has a row changes nothing, mark_done for an
\* empty id stores nothing, otherwise it adds one row; and a sweep inside
\* the allowed window never skips a matching message without id: each one
\* is queued, on every sweep.
C11_MarkDoneIdempotent ==
    [][/\ MarkStep
          => processed' =
               IF cur.mid = NoMid \/ HasRow(processed, cur.mid) THEN processed
               ELSE processed \cup {[mid |-> cur.mid, ts |-> now,
                                      subject |-> cur.kind]}
       /\ SweepStep
          => /\ NoMid \notin sweepSkipped'
             /\ allowed_now(now)
                  => Cardinality(AnonymousQueued(queue'))
                       = Cardinality(Anonymous(unseen))
       ]_vars

\* Two copies of one message ran in one sweep; the second mark_done came
\* later than the first and the row still carries the first timestamp
C11_Witness ==
    /\ cur = NoItem
    /\ Len(sweepLog) >= 2
    /\ sweepLog[Len(sweepLog)].outcome # "started"
    /\ sweepLog[Len(sweepLog)].mid # NoMid
    /\ \E i \in 1..(Len(sweepLog) - 1) : sweepLog[i].mid = sweepLog[Len(sweepLog)].mid
    /\ \E r \in processed : r.mid = sweepLog[Len(sweepLog)].mid /\ r.ts < now

\* C12: every item handed to a workflow has the smallest ordering key among
\* the items of its sweep that are still waiting, so the dispatch order of a
\* sweep is the ascending order of the keys, whatever the kinds.
C12_DispatchInKeyOrder ==
    [][DispatchStep
          => \A i \in DOMAIN queue :
                Head(queue).subject_date <= queue[i].subject_date]_vars

\* C13: in the sorted list of a sweep, every item whose subject carries no
\* parseable date comes after every item whose subject date was parsed.
C13_UndatedLast ==
    [][SweepStep
          => LET sorted == SortByDate(Collect(unseen, processed, now))
             IN \A i, j \in DOMAIN sorted :
                   (~sorted[i].dated /\ sorted[j].dated) => j < i]_vars

\* C14: at most one workflow subprocess of the watcher process is running at
\* any moment; one is started only by the worker, and only when none is
\* running, so never by a timeout watcher and never before the previous
\* item's workflow has returned.
C14_OneWorkflowAtATime ==
    [][/\ active' <= 1
       /\ active' > active
            => /\ active = 0
               /\ pc = "validate"
               /\ watchers' = watchers]_vars

\* The second item of a sweep runs its workflow after the first one's has
\* returned, while a timeout watcher is alive
C14_Witness ==
    /\ active = 1
    /\ pc = "exec"
    /\ Len(sweepLog) = 2
    /\ sweepLog[1].ran
    /\ sweepLog[1].outcome # "started"
    /\ watchers # <<>>

\* C15: a sweep made outside the allowed window queues nothing and marks
\* every matching message that carries an id as done.
C15_OutsideWindowMarkedDone ==
    [][(SweepStep /\ ~allowed_now(now))
          => /\ queue' = <<>>
             /\ \A i \in DOMAIN unseen :
                   (unseen[i].trigger /\ unseen[i].mid # NoMid)
                      => HasRow(processed', unseen[i].mid)]_vars

\* C16: when pre-processing of an item fails, the failure is reported to the
\* sink and the item is marked done.
C16_PreprocessFailureMarkedDone ==
    [][PreprocessFailStep
          => /\ Emits
             /\ Emitted.variant = "preprocess_failure"
             /\ Head(queue).mid # NoMid
                  => HasRow(processed', Head(queue).mid)]_vars

\* C17: while the process has not died, every item that was handed to
\* process_email and is no longer in progress has a row in the dedup store,
\* whether its workflow succeeded, failed or was rejected at validation.
C17_MarkedWhateverOutcome ==
    (crashes = 0 /\ cur = NoItem)
        => \A i \in DOMAIN sweepLog :
              sweepLog[i].mid # NoMid => HasRow(processed, sweepLog[i].mid)

\* An item whose workflow ran and failed has been marked done
C17_Witness ==
    /\ crashes = 0
    /\ cur = NoItem
    /\ \E i \in DOMAIN sweepLog :
          /\ sweepLog[i].ran
          /\ sweepLog[i].outcome = "failed"
          /\ HasRow(processed, sweepLog[i].mid)

\* C18: when the process dies while a workflow is running, the event that
\* triggered it already has its row in the dedup store.
C18_MarkedBeforeWorkflowEnds ==
    [][(pc = "exec" /\ crashes' = crashes + 1)
          => (cur.mid # NoMid => HasRow(processed', cur.mid))]_vars

\* A member matches a named individual when they share a non-empty passport
\* or a non-empty identity
Matches(m, ind) ==
    \/ m.passport # Blank /\ m.passport = ind.passport
    \/ m.identity # Blank /\ m.identity = ind.identity

MatchesAny(m, found) == \E i \in DOMAIN found : Matches(m, found[i])

\* The members of a list that match none of the named individuals, in the
\* order of the list
RECURSIVE MinusNamed(_, _)
MinusNamed(members, found) ==
    IF members = <<>>
    THEN <<>>
    ELSE IF MatchesAny(Head(members), found)
         THEN MinusNamed(Tail(members), found)
         ELSE <<Head(members)>> \o MinusNamed(Tail(members), found)

Elems(s) == {s[i] : i \in DOMAIN s}

\* The run submitted the file a second time
Retried == Len(submitted) = 2

\* The invoices of the first submission rejected with a list of individuals
RejectedWithNames ==
    {g \in DOMAIN emisiones :
        /\ ~submitted[1].answer[g].ok
        /\ submitted[1].answer[g].found # <<>>}

\* The members of invoice g that the second submission no longer holds
LeftOut(g) == Elems(emisiones[g]) \ Elems(submitted[2].file[g])

\* C19: when corrected_main submits the file again, every invoice that was
\* rejected with a list of individuals is resubmitted with exactly its
\* original insured list minus the members that match an individual named
\* for that invoice, in the original order; every member left out is in the
\* removed_individuals of the failed-individuals output and in no emission
\* returned as successful.
C19_RetryIsOriginalMinusNamed ==
    (entry = "corrected_main" /\ Retried) =>
        \A g \in RejectedWithNames :
            /\ submitted[2].file[g] =
                   MinusNamed(emisiones[g], submitted[1].answer[g].found)
            /\ \A m \in LeftOut(g) :
                /\ \E i \in DOMAIN failed_individuals_data :
                       m \in Elems(
                           failed_individuals_data[i].removed_individuals)
                /\ MatchesAny(m, all_failed_individuals)
                /\ \A i \in DOMAIN successful_emissions :
                       m \notin Elems(successful_emissions[i].insured)

\* C19 witness: a three-member invoice was rejected naming its second
\* member; the file went out again with the first and the third member and
\* was issued.
C19_Witness ==
    /\ entry = "corrected_main"
    /\ step = "done"
    /\ Retried
    /\ Len(emisiones[1]) = 3
    /\ RejectedWithNames = {1}
    /\ Len(submitted[2].file[1]) = 2
    /\ submitted[2].file[1][1].row = 1
    /\ submitted[2].file[1][2].row = 3
    /\ Len(successful_emissions) = 1

\* Invoice g was rejected with status 417 naming at least one of its
\* members and leaving at least one member over
StructuralRejection(g) ==
    /\ ~submitted[1].answer[g].ok
    /\ submitted[1].answer[g].status_code = ExpectationFailed
    /\ \E i \in DOMAIN emisiones[g] :
           MatchesAny(emisiones[g][i], submitted[1].answer[g].found)
    /\ MinusNamed(emisiones[g], submitted[1].answer[g].found) # <<>>

\* The file went to the external workflow at most twice; a second
\* submission carries the filtered file and ends the run whatever its
\* answer; a run that ended after a structural rejection made it.
AtMostOneRetry ==
    /\ Len(submitted) <= 2
    /\ Retried => step = "done" /\ submitted[2].file = filtered
    /\ (step = "done" /\ \E g \in DOMAIN emisiones : StructuralRejection(g))
           => Retried

\* C20: each of the three entry points hands the file to the external
\* workflow at most twice: after a rejection that names members the filtered
\* file is submitted once, the answer to that submission, a rejection
\* included, leads to no further submission, and the run ends.
C20_AtMostOneRetry == []AtMostOneRetry /\ <>(step = "done")

\* C20 witness: the second submission was itself rejected with status 417
\* naming a member it still held, and the run ended with two submissions.
C20_Witness ==
    /\ step = "done"
    /\ Retried
    /\ ~submitted[2].answer[1].ok
    /\ submitted[2].answer[1].status_code = ExpectationFailed
    /\ \E i \in DOMAIN submitted[2].file[1] :
           MatchesAny(submitted[2].file[1][i], submitted[2].answer[1].found)

\* C21: corrected_main never hands the external workflow an invoice without
\* insured: an invoice whose insured were all excluded is not submitted
\* again.
C21_EmptyGroupNotResubmitted ==
    entry = "corrected_main" =>
        \A i \in DOMAIN submitted :
            \A g \in DOMAIN submitted[i].file : submitted[i].file[g] # <<>>

IdlePositions == {"idle_start", "idle_cycle"}

\* The positions of main() inside polling_loop_with_interval
PollPositions == {"poll_start", "poll_cycle"}

\* C23: once idle_with_keepalive has given up IDLE after its failures in a
\* row, the watcher is never in IDLE mode again, also after a reconnect.
C23_DowngradeIsPermanent == downgraded => mainAt \notin IdlePositions

\* The step of main() that ends a successful connect
ConnectedStep == mainAt = "connect" /\ client' = "alive"

\* C24: a successful connect leads into IDLE mode exactly when the server
\* advertises IDLE and POLL_INTERVAL is 0, into polling mode otherwise, and
\* client.idle() is called on no connection of a server without IDLE or
\* with a configured poll interval.
C24_IdleIffCapableAndPreferred ==
    [][/\ ConnectedStep =>
              /\ mainAt' \in IdlePositions \cup PollPositions
              /\ mainAt' \in IdlePositions
                     <=> (hasIdle /\ POLL_INTERVAL = PreferIdle)
       /\ idleCalled' => (hasIdle /\ POLL_INTERVAL = PreferIdle)]_vars

\* The step in which the monitoring loop ends and control is back in main()
MonitoringEndStep ==
    /\ mainAt \in IdlePositions \cup PollPositions
    /\ mainAt' \notin IdlePositions \cup PollPositions

\* The step in which main() handles an exception
FailureStep == mainAt = "connect" /\ mainAt' = "backoff"

\* C25: when the monitoring loop ends with an error, in either mode, the
\* connection is closed and main() computes a delay and sleeps before it
\* connects again: it is never back at its connect without a backoff.
C25_BackoffAfterMonitoringFailure ==
    [][MonitoringEndStep => (client' = "none" /\ mainAt' = "backoff")]_vars

\* The delay, in seconds, of the n-th failure in a row of the security class
SecurityDelay(n) ==
    IF n <= 3
    THEN Min(3 * Pow(2, n), 60)
    ELSE Min(3 * Pow(2, n), 300)

C27_CountersResetOnConnect ==
    [][/\ ConnectedStep =>
              (consecutive_failures' = 0 /\ ssl_failure_count' = 0)
       /\ mainAt' \in IdlePositions \cup PollPositions =>
              (consecutive_failures' = 0 /\ ssl_failure_count' = 0)
       /\ (FailureStep /\ cause = NoError) =>
              /\ consecutive_failures' = 1
              /\ backoff' \in {6 * Ticks, (9 * Ticks) \div 2}
      ]_vars

\* C27 witness: connected and monitoring with both counters at zero after
\* at least three failures in a row (the last delay was 24 seconds or more).
C27_Witness ==
    /\ mainAt \in IdlePositions \cup PollPositions
    /\ client = "alive"
    /\ consecutive_failures = 0
    /\ ssl_failure_count = 0
    /\ backoff >= 24 * Ticks

\* C28: the schedule main() applies after a failure is the security one
\* exactly when the error behind the failure is a security or transport
\* error.
C28_ScheduleFollowsErrorClass ==
    mainAt = "backoff" => (ssl_error <=> cause.kind = "security")

\* C29: main() never stops: after every failure it is back at its connect,
\* and if the server stays reachable from some point on, the watcher runs
\* sweeps on a live connection again and again.
C29_NeverFatal ==
    /\ [](mainAt = "backoff" => <>(mainAt = "connect"))
    /\ [](mainAt \in {"connect", "backoff", "idle_start", "idle_cycle",
                      "poll_start", "poll_cycle"})
    /\ <>[]up => []<>swept

\* C29 witness: after failed connects and after IDLE was given up, the
\* watcher is connected and has just run a sweep.
C29_Witness ==
    /\ swept
    /\ client = "alive"
    /\ downgraded
    /\ backoff >= 24 * Ticks


RECURSIVE LatestSave(_, _)
\* The latest of the first n calls that saved statistics for the pipeline
\* and was not followed by a clear of that pipeline or of everything:
\* its number and its dict, or number 0 when there is none.
LatestSave(pipeline_type, n) ==
    IF n = 0 THEN [at |-> 0, stats |-> NoCounts]
    ELSE LET c == calls[n]
         IN IF c.pipeline_type \in {pipeline_type, "None"} /\ c.op = "clear"
            THEN [at |-> 0, stats |-> NoCounts]
            ELSE IF c.pipeline_type = pipeline_type /\ c.op = "save"
                 THEN [at |-> n, stats |-> c.stats]
                 ELSE LatestSave(pipeline_type, n - 1)

\* The pipelines that have saved statistics after the calls made so far
Saved == {p \in PipelineTypes : LatestSave(p, Len(calls)).at # 0}

RECURSIVE SumOfSaved(_, _)
\* The sum of one count over the latest saves of a set of pipelines, a
\* count the dict does not have being zero
SumOfSaved(ps, key) ==
    IF ps = {} THEN 0
    ELSE LET p == CHOOSE q \in ps : TRUE
             v == LatestSave(p, Len(calls)).stats[key]
         IN (IF v = Absent THEN 0 ELSE v) + SumOfSaved(ps \ {p}, key)

\* C30: after any sequence of saves and clears for si and viajeros,
\* get_pipeline_stats of a pipeline returns the values of the latest save
\* for it, and nothing when it was never saved or was cleared since; and
\* when the combined statistics exist, each of their totals is the sum of
\* that count over the pipelines that have saved statistics.
C30_StatsAreLatestAndTotalsAreSums ==
    /\ \A p \in PipelineTypes :
           LET latest == LatestSave(p, Len(calls))
               got == get_pipeline_stats(p)
           IN IF latest.at = 0
              THEN got = NoStats
              ELSE /\ got # NoStats
                   /\ got.pipeline_type = p
                   /\ got.run_timestamp = latest.at
                   /\ got.successful = latest.stats.successful
                   /\ got.failed = latest.stats.failed
                   /\ got.total_processed = latest.stats.total_processed
    /\ get_combined_stats # NoStats =>
           /\ DOMAIN get_combined_stats.pipelines = Saved
           /\ get_combined_stats.totals.successful =
                  SumOfSaved(Saved, "successful")
           /\ get_combined_stats.totals.failed = SumOfSaved(Saved, "failed")
           /\ get_combined_stats.totals.total_processed =
                  SumOfSaved(Saved, "total_processed")

\* C30 witness: both pipelines were saved, si twice with different counts,
\* then viajeros was cleared: only si has statistics, those of its second
\* save, and the combined totals are these counts.
C30_Witness ==
    /\ Len(calls) = 4
    /\ calls[1].op = "save" /\ calls[1].pipeline_type = "si"
    /\ calls[2].op = "save" /\ calls[2].pipeline_type = "viajeros"
    /\ calls[2].stats.successful = 1
    /\ calls[3].op = "save" /\ calls[3].pipeline_type = "si"
    /\ calls[3].stats # calls[1].stats
    /\ calls[3].stats.total_processed = 2
    /\ calls[4].op = "clear" /\ calls[4].pipeline_type = "viajeros"
    /\ get_pipeline_stats("viajeros") = NoStats
    /\ get_pipeline_stats("si").run_timestamp = 3
    /\ get_combined_stats # NoStats
    /\ get_combined_stats.totals.total_processed = 2


C32_NoIdleAfterFallback ==
    [][/\ mainAt \in PollPositions =>
              /\ mainAt' \in PollPositions \cup {"connect"}
              /\ mainAt' = "connect" => client' = "none"
       /\ (mainAt' \in IdlePositions /\ mainAt \notin IdlePositions) =>
              mainAt = "connect"
       /\ (mainAt \in IdlePositions /\ mainAt' \in PollPositions) =>
              ~use_idle'
      ]_vars

\* C32 witness: on a connection that started in IDLE mode the watcher gave
\* IDLE up and is polling, its last poll a sweep on the live connection.
C32_Witness ==
    /\ mainAt = "poll_cycle"
    /\ POLL_INTERVAL = PreferIdle
    /\ ~use_idle
    /\ downgraded
    /\ idleCalled
    /\ client = "alive"
    /\ swept


\* C33: IDLE mode is given up for polling only when the errors in a row go
\* beyond 3, on the fourth and not on the third, and every IDLE cycle that
\* completes sets the count of errors in a row back to zero.
C33_FallbackOnFourthError ==
    [][mainAt = "idle_cycle" =>
           /\ mainAt' \in PollPositions =>
                  consecutive_idle_failures' > max_idle_failures
           /\ consecutive_idle_failures' <= max_idle_failures =>
                  mainAt' = "idle_cycle"
           /\ (mainAt' = "idle_cycle" /\ swept') =>
                  consecutive_idle_failures' = 0
      ]_vars


\* The kind was started in the session of this row
Started(row, k) == row.started_at[k] # None

\* C34: the timeout report of a session names the right case: coordination
\* failed when both kinds were started and one never finished, only kind K
\* when K alone was started; a kind that was started is never reported as
\* not activated.
C34_TimeoutReportNamesTheCase ==
    [][(Emits /\ Emitted.variant \in TimeoutVariants) =>
           LET row == sessions[Emitted.sid]
               si == Started(row, "si")
               vi == Started(row, "viajeros")
           IN /\ (si /\ vi /\ \E k \in Kinds : ~Terminal(row.status[k]))
                     => Emitted.variant = "timeout_coordination_failed"
              /\ (si /\ ~vi) => Emitted.variant = "timeout_only_si"
              /\ (vi /\ ~si) => Emitted.variant = "timeout_only_viajeros"
              /\ Emitted.variant = "timeout_only_si" => ~vi
              /\ Emitted.variant = "timeout_only_viajeros" => ~si
      ]_vars


\* C35: at any time at most one timeout watcher is alive for a session
C35_OneWatcherPerSession ==
    \A i, j \in DOMAIN watchers :
        watchers[i].sid = watchers[j].sid => i = j


\* The last multiple of TimeStep the clock of a run reaches
LastStep == (MaxTime \div TimeStep) * TimeStep

\* The watcher's session times out and the watcher wakes up within the time
\* a run covers
InHorizon(i) ==
    /\ watchers[i].sid \in DOMAIN sessions =>
           sessions[watchers[i].sid].created_at + WaitTimeout <= LastStep
    /\ watchers[i].branch = "sleep" => watchers[i].wake <= LastStep

\* The step in which the i-th watcher polls and goes to sleep again
SleepsAgain(i) ==
    /\ Len(watchers') = Len(watchers)
    /\ watchers[i].branch = "sleep"
    /\ watchers'[i].branch = "sleep"
    /\ watchers'[i].wake > watchers[i].wake

CurStatus == sessions[cur.sid].status[cur.kind]

\* C37: every dispatch that started a kind in a session closes it before it
\* returns: whatever the path, complete_pipeline runs once, on a kind that
\* is running, and sets it to failed when the run failed, to completed
\* otherwise; when the dispatch returns the kind is terminal, and no other
\* step changes a status.
C37_StartedKindIsClosed ==
    [][/\ (pc = "validate" /\ pc' # "validate" /\ crashes' = crashes) =>
              pc' \in {"exec", "complete"}
       /\ (pc = "exec" /\ pc' # "exec" /\ crashes' = crashes) =>
              pc' = "complete"
       /\ (pc = "complete" /\ pc' # "complete") =>
              /\ CurStatus = "running"
              /\ sessions'[cur.sid].status[cur.kind] =
                     IF cur.success THEN "completed" ELSE "failed"
       /\ (pc = "mark" /\ pc' # "mark") =>
              /\ Terminal(CurStatus)
              /\ ~cur.success => CurStatus = "failed"
       /\ \A sid \in DOMAIN sessions :
              sessions'[sid].status # sessions[sid].status =>
                  /\ sid = cur.sid
                  /\ pc \in {"start_update", "complete"}
      ]_vars

\* C37 witness: a workflow that was launched and ended with a non-zero exit
\* is closed as failed, its dispatch about to return.
C37_Witness ==
    /\ pc = "mark"
    /\ ~cur.success
    /\ sweepLog[Len(sweepLog)].ran
    /\ CurStatus = "failed"


\* C38: a session that start_pipeline_session creates (no open session to
\* join) gets an id no existing session has, also within the second in
\* which another session was created: the id start works with never
\* belongs to a session that is already reported.
C38_NewSessionHasFreshId ==
    [][(pc = "get_session" /\ pc' = "start_update"
        /\ OpenSessions(sessions, now) = {}) =>
           /\ cur'.sid \notin DOMAIN sessions
           /\ cur'.sid \in DOMAIN sessions'
           /\ ~sessions'[cur'.sid].combined_report_sent
      ]_vars


\* C39: a session has combined_report_sent set only if the sink accepted a
\* report of the coordinator for it; after a failed emission the flag is
\* false.
C39_FlagOnlyAfterDelivery ==
    \A sid \in DOMAIN sessions :
        sessions[sid].combined_report_sent => CoordinatorReportsOf(sid) # {}


\* C40: with IMAP_SSL true, whatever strategies fail, reconnect_imap sends
\* the login only on connections that were opened with SSL.
C40_LoginOnlyOverSsl ==
    USE_SSL => \A a \in DOMAIN attempts :
                   attempts[a].login => attempts[a].ssl

====
